---- MODULE Spec2Model ----
(***************************************************************************)
(* A model of stability-go: the client middleware (RateLimitMiddleware,    *)
(* RetryMiddleware, ProxyMiddleware, MiddlewareClient), the poll           *)
(* operations of the job client and WaitForVideoResult, and the API server *)
(* (cache fingerprint, response cache, authorization stages).              *)
(*                                                                         *)
(* Each component has its own group of variables and its own              *)
(* specification (SpecRL, SpecRetry, SpecChain, SpecPoll, SpecKey,         *)
(* SpecCache, SpecAuth, SpecSubmit, SpecJob, SpecShared, SpecServer,       *)
(* SpecLimiter); the variables of the other components stay at their       *)
(* initial value.  SpecClient joins SpecSubmit and SpecPoll, SpecRLCancel  *)
(* adds cancellation to SpecRL, SpecRLFair is one call of each caller      *)
(* under weak fairness, SpecRetryProxy is the retry loop around the        *)
(* ProxyMiddleware, and SpecWait is WaitForVideoResult under weak          *)
(* fairness.                                                               *)
(***************************************************************************)
EXTENDS Integers, Sequences, FiniteSets, TLC

(***************************************************************************)
(* Bounds of the model.                                                    *)
(***************************************************************************)
NumCallers == 2      \* goroutines sharing one RateLimitMiddleware
MaxCalls == 2        \* RoundTrip calls each goroutine makes
MaxTime == 4         \* last tick of the wall clock
MaxInterval == 2     \* largest minInterval tried

VARIABLES
    \* ---- RateLimitMiddleware (one shared instance) ----
    now,          \* the wall clock (monotonic), in ticks
    minInterval,  \* RateLimitMiddleware.minInterval
    lastRequest,  \* RateLimitMiddleware.lastRequest
    mutex,        \* RateLimitMiddleware.mutex: 0 when free, else the holder
    rlpc,         \* position of each caller inside RoundTrip
    wakeAt,       \* per caller: the instant its time.Sleep may return
    callsDone,    \* per caller: RoundTrip calls finished
    stampGap,     \* history: the least gap between two successive values
                  \* written to lastRequest (MaxDuration before the second)
    lastDispatch, \* history: the instant of the latest dispatch start
    dispatchGap,  \* history: the least gap between two successive dispatch
                  \* starts (MaxDuration before the second)
    readSinceStamp,\* history: a caller has read lastRequest since its last write
    sharedStamp,  \* history: two reads of lastRequest saw the same write
    \* ---- MiddlewareClient ----
    middleware,   \* MiddlewareClient.middleware: the interceptors, in order
    httpTransport,\* Client.HTTPClient.Transport: 0 is nil (DefaultTransport)
    chpc,         \* position of the request issued through the client
    chOp,         \* the operation that issued it
    cur,          \* the transport the request is at: an index, 0 the network
    entered,      \* history: the interceptors the request entered, in order
    \* ---- RetryMiddleware (one RoundTrip call) ----
    maxRetries,   \* RetryMiddleware.maxRetries
    baseDelay,    \* RetryMiddleware.baseDelay
    maxDelay,     \* RetryMiddleware.maxDelay
    reqBody,      \* req.Body: nil, or a reader with its bytes and read offset
    bodyBytes,    \* the copy of the body: the nil slice, or the bytes read
    origBody,     \* history: req.Body as the caller supplied it
    bodyReads,    \* history: times the supplied body was read to its end
    sentStale,    \* history: a dispatch carried a body that was not a fresh
                  \* reader over the supplied bytes
    rtpc,         \* position inside RetryMiddleware.RoundTrip
    attempt,      \* the loop variable
    lastOut,      \* resp, err of the last m.transport.RoundTrip
    lastClosed,   \* RoundTrip closed the body of the last response
    delay,        \* the jittered delay of the last timer
    timerFired,   \* timer.C is ready
    ctxDone,      \* req.Context().Done() is closed
    woken,        \* the case that woke the select blocked on both channels
    result,       \* what RoundTrip returned
    dispatchCount,\* history: calls of m.transport.RoundTrip
    waitCount,    \* history: timers started
    failures,     \* history: transport outcomes that were retryable
    firstOut,     \* history: the outcome of the first dispatch
    \* ---- Client.PollVideoResult / Client.PollCreativeResult ----
    pollIn,       \* what c.HTTPClient.Do(req) gives: error, status, body
    pollpc,       \* "ready" before the poll, "returned" after it
    pollKind,     \* the job kind polled: "video" or "creative"
    pollOut,      \* what the poll returned
    \* ---- the cache fingerprint of two requests ----
    keyImpl,      \* "server" (api) or "worker" (cloudflare)
    keyReq,       \* the two requests: image and form fields as supplied
    keyOut,       \* the cache key computed for each, <<>> before
    \* ---- the response cache of the API server ----
    CachePath,    \* Server.CachePath: "" when the cache is disabled
    cacheFile,    \* the file of each cache key in the cache directory
    hpc,          \* position of each request inside the submit handler
    hin,          \* what each request submits
    afterSuccess, \* history: per request, a submit of the same (payload,
                  \* params) had been answered 200 when it arrived
    responseData, \* per request: the marshalled response, "" before
    hresp,        \* per request: the answer written to the client
    readFailed,   \* history: os.ReadFile failed for the request
    writeFailed,  \* history: os.WriteFile failed for the request
    dispatched,   \* history: the request was sent upstream
    firstBody,    \* history: per key, the body of the first 200 answer
    \* ---- one request through the API server ----
    AllowedIPs,   \* Server.AllowedIPs
    AllowedAppIDs,\* Server.AllowedAppIDs
    areq,         \* the request
    apc,          \* the middleware or handler the request is at
    astatus,      \* the status answered, 0 before
    stagesRun,    \* history: the stages that ran, in order
    handlerRan,   \* history: the route handler that ran, "none" before
    acached,      \* the answer is a cache file, sent with X-Cache: HIT
    \* ---- Client.ImageToVideo / Client.Upscale (one submit) ----
    subReq,       \* the ImageToVideoRequest / UpscaleRequest submitted
    subUp,        \* what c.HTTPClient.Do(httpReq) gave: error, status, body
    subpc,        \* position inside the submit
    subOut,       \* what the submit returned
    subDispatches,\* history: calls of c.HTTPClient.Do
    \* ---- the API server's submit and poll handlers (one job) ----
    jform,        \* the form of the request to POST /api/v1/upscale
    upJob,        \* the job at the upstream: kind, state, payload
    jpc,          \* "ready" before the submit, "polling" once the job exists
    jsub,         \* what the upstream answered the submit
    jpollIn,      \* what the upstream answered the latest poll
    jans,         \* the latest answer of the server
    jfrom,        \* the handler that gave it
    janswers,     \* history: what the polls of the job were answered, in order
    jdispatches,  \* history: submits sent upstream
    jCachePath,   \* Server.CachePath of the server that handles the job
    jstored,      \* the cache file the submit handler wrote, NoAnswer when none
    \* ---- goroutines sharing one MiddlewareClient ----
    sharedList,   \* MiddlewareClient.middleware of the shared client
    sharedTransport,\* Client.HTTPClient.Transport: its value and the goroutine that wrote it
    gpc,          \* position of each goroutine inside its call
    gop,          \* the operation each goroutine calls
    gread,        \* per goroutine: the Transport its request was handed to
    unsyncWrite,  \* history: Transport was written while another call was in flight
    \* ---- requests arriving at the API server over time ----
    srvLimit,     \* Server.RateLimit / the limit given to WithRateLimit, in ticks
    srvChain,     \* the middleware around the handlers, outermost first
    stime,        \* the wall clock, in ticks
    bucket,       \* tokens in the bucket channel of WithRateLimit (capacity 1)
    tickerpc,     \* the refill goroutine: "none", "start" or "running"
    refillAt,     \* the instant of the ticker's next tick
    sat,          \* per request: 0 before it arrives, else the stage it is at
    lastAdmit,    \* history: the instant the latest request reached a handler
    admitGap,     \* history: the least gap between two successive admissions
    \* ---- cancellation of a request blocked in RateLimitMiddleware ----
    ctxCancelled, \* per caller of the RateLimitMiddleware: the call (1, 2, ...) during whose wait req.Context() was cancelled, 0 when none
    \* ---- a RetryMiddleware that wraps a ProxyMiddleware ----
    reqURL,       \* req.URL, which every transport of the chain shares
    origURL,      \* history: req.URL as the caller built it
    sentURLs,     \* history: the destination of each dispatch to the network, in order
    \* ---- Client.WaitForVideoResult (one call) ----
    winterval,    \* the interval given to WaitForVideoResult, in ticks
    wpc,          \* position inside WaitForVideoResult
    wwoken,       \* the case that woke the select blocked on both channels
    wctxDone,     \* ctx.Done() is closed
    wtick,        \* ticker.C holds a tick
    wjob,         \* the job at the upstream
    wout,         \* what WaitForVideoResult returned
    wfirst,       \* history: the first event that ends the wait
    wlatePoll,    \* history: a poll was started after that event
    wpolls        \* history: calls of PollVideoResult, up to MaxPolls

rlVars == <<now, minInterval, lastRequest, mutex, rlpc, wakeAt, callsDone,
            stampGap, lastDispatch, dispatchGap, readSinceStamp, sharedStamp>>

chainVars == <<middleware, httpTransport, chpc, chOp, cur, entered>>

retryVars == <<maxRetries, baseDelay, maxDelay, reqBody, bodyBytes, origBody,
               bodyReads, sentStale, rtpc,
               attempt, lastOut, lastClosed, delay, timerFired, ctxDone, woken, result,
               dispatchCount, waitCount, failures, firstOut>>

pollVars == <<pollIn, pollpc, pollKind, pollOut>>

keyVars == <<keyImpl, keyReq, keyOut>>

cacheVars == <<CachePath, cacheFile, hpc, hin, afterSuccess, responseData, hresp,
               readFailed, writeFailed, dispatched, firstBody>>

authVars == <<AllowedIPs, AllowedAppIDs, areq, apc, astatus, stagesRun,
              handlerRan, acached>>

submitVars == <<subReq, subUp, subpc, subOut, subDispatches>>

jobVars == <<jform, upJob, jpc, jsub, jpollIn, jans, jfrom, janswers, jdispatches,
             jCachePath, jstored>>

sharedVars == <<sharedList, sharedTransport, gpc, gop, gread, unsyncWrite>>

srvVars == <<srvLimit, srvChain, stime, bucket, tickerpc, refillAt, sat, lastAdmit, admitGap>>

ctxVars == <<ctxCancelled>>

proxyVars == <<reqURL, origURL, sentURLs>>

waitVars == <<winterval, wpc, wwoken, wctxDone, wtick, wjob, wout, wfirst, wlatePoll, wpolls>>

vars == <<rlVars, chainVars, retryVars, pollVars, keyVars, cacheVars,
          authVars, submitVars, jobVars, sharedVars, srvVars, ctxVars,
          proxyVars, waitVars>>

notRL == <<chainVars, retryVars, pollVars, keyVars, cacheVars, authVars,
           submitVars, jobVars, sharedVars, srvVars, ctxVars, proxyVars,
           waitVars>>
notChain == <<rlVars, retryVars, pollVars, keyVars, cacheVars, authVars,
              submitVars, jobVars, sharedVars, srvVars, ctxVars, proxyVars,
              waitVars>>
notRetry == <<rlVars, chainVars, pollVars, keyVars, cacheVars, authVars,
              submitVars, jobVars, sharedVars, srvVars, ctxVars, proxyVars,
              waitVars>>
notPoll == <<rlVars, chainVars, retryVars, keyVars, cacheVars, authVars,
             submitVars, jobVars, sharedVars, srvVars, ctxVars, proxyVars,
             waitVars>>
notKey == <<rlVars, chainVars, retryVars, pollVars, cacheVars, authVars,
            submitVars, jobVars, sharedVars, srvVars, ctxVars, proxyVars,
            waitVars>>
notCache == <<rlVars, chainVars, retryVars, pollVars, keyVars, authVars,
              submitVars, jobVars, sharedVars, srvVars, ctxVars, proxyVars,
              waitVars>>
notAuth == <<rlVars, chainVars, retryVars, pollVars, keyVars, cacheVars,
             submitVars, jobVars, sharedVars, srvVars, ctxVars, proxyVars,
             waitVars>>
notSubmit == <<rlVars, chainVars, retryVars, pollVars, keyVars, cacheVars,
               authVars, jobVars, sharedVars, srvVars, ctxVars, proxyVars,
               waitVars>>
notJob == <<rlVars, chainVars, retryVars, pollVars, keyVars, cacheVars,
            authVars, submitVars, sharedVars, srvVars, ctxVars, proxyVars,
            waitVars>>
notShared == <<rlVars, chainVars, retryVars, pollVars, keyVars, cacheVars,
               authVars, submitVars, jobVars, srvVars, ctxVars, proxyVars,
               waitVars>>
notSrv == <<rlVars, chainVars, retryVars, pollVars, keyVars, cacheVars,
            authVars, submitVars, jobVars, sharedVars, ctxVars, proxyVars,
            waitVars>>
notCtx == <<rlVars, chainVars, retryVars, pollVars, keyVars, cacheVars,
            authVars, submitVars, jobVars, sharedVars, srvVars, proxyVars,
            waitVars>>
notProxy == <<rlVars, chainVars, retryVars, pollVars, keyVars, cacheVars,
              authVars, submitVars, jobVars, sharedVars, srvVars, ctxVars,
              waitVars>>
notWait == <<rlVars, chainVars, retryVars, pollVars, keyVars, cacheVars,
             authVars, submitVars, jobVars, sharedVars, srvVars, ctxVars,
             proxyVars>>

\* The value of each group of variables while another component runs.
IdleRL ==
    /\ now = 0
    /\ minInterval = 0
    /\ lastRequest = 0 - 1
    /\ mutex = 0
    /\ rlpc = [c \in 1..NumCallers |-> "idle"]
    /\ wakeAt = [c \in 1..NumCallers |-> 0]
    /\ callsDone = [c \in 1..NumCallers |-> 0]
    /\ stampGap = 1000000
    /\ lastDispatch = 0 - 1
    /\ dispatchGap = 1000000
    /\ readSinceStamp = FALSE
    /\ sharedStamp = FALSE

IdleChain ==
    /\ middleware = <<>>
    /\ httpTransport = 0
    /\ chpc = "idle"
    /\ chOp = "none"
    /\ cur = 0
    /\ entered = <<>>

NoOutcome == [err |-> FALSE, status |-> 0]

\* req.Body == nil, and the nil []byte.
NilBody == [kind |-> "nil", data |-> <<>>, pos |-> 0]

NilBytes == [isNil |-> TRUE, data |-> <<>>]

NoResult == [resp |-> 0, status |-> 0, err |-> "none", errOf |-> 0]

IdleRetry ==
    /\ maxRetries = 0
    /\ baseDelay = <<>>
    /\ maxDelay = <<>>
    /\ reqBody = NilBody
    /\ bodyBytes = NilBytes
    /\ origBody = NilBody
    /\ bodyReads = 0
    /\ sentStale = FALSE
    /\ rtpc = "idle"
    /\ attempt = 0
    /\ lastOut = NoOutcome
    /\ lastClosed = FALSE
    /\ delay = <<>>
    /\ timerFired = FALSE
    /\ ctxDone = FALSE
    /\ woken = "none"
    /\ result = NoResult
    /\ dispatchCount = 0
    /\ waitCount = 0
    /\ failures = 0
    /\ firstOut = NoOutcome

\* No request, no upstream answer and no result of a submit.
NoSubmitRequest ==
    [op |-> "none", image |-> <<>>, filename |-> "", duration |-> 0, fps |-> 0,
     type |-> "", prompt |-> "", creativity |-> 0]

NoUpstreamAnswer ==
    [doErr |-> FALSE, status |-> 0,
     errBody |-> [json |-> TRUE, name |-> "", message |-> ""],
     json |-> FALSE, id |-> "", data |-> <<>>, mime |-> ""]

NoSubmitResult == [ok |-> FALSE, err |-> "none", id |-> "", data |-> <<>>, mime |-> ""]

IdleSubmit ==
    /\ subReq = NoSubmitRequest
    /\ subUp = NoUpstreamAnswer
    /\ subpc = "idle"
    /\ subOut = NoSubmitResult
    /\ subDispatches = 0

\* No form, no answer of the server, no upstream job.
NoForm ==
    [method |-> "", parsed |-> FALSE, type |-> "", prompt |-> "", hasImage |-> FALSE,
     creativity |-> [kind |-> "empty", value |-> 0], stylePreset |-> ""]

NoAnswer ==
    [status |-> 0, success |-> FALSE, error |-> "", id |-> "", pending |-> FALSE,
     image |-> <<>>]

NoJob == [kind |-> "none", state |-> "none", payload |-> <<>>]

NoPollInput ==
    [doErr |-> FALSE, status |-> 0,
     body |-> [shape |-> "invalid", finished |-> FALSE, error |-> "",
               payload |-> [present |-> FALSE, s |-> <<>>], mime |-> "",
               magic |-> FALSE, ftyp |-> FALSE,
               errBody |-> [json |-> TRUE, name |-> "", message |-> ""]]]

IdleJob ==
    /\ jform = NoForm
    /\ upJob = NoJob
    /\ jpc = "idle"
    /\ jsub = NoUpstreamAnswer
    /\ jpollIn = NoPollInput
    /\ jans = NoAnswer
    /\ jfrom = "none"
    /\ janswers = <<>>
    /\ jdispatches = 0
    /\ jCachePath = ""
    /\ jstored = NoAnswer

IdleShared ==
    /\ sharedList = <<>>
    /\ sharedTransport = [value |-> 0, writer |-> 0]
    /\ gpc = <<>>
    /\ gop = <<>>
    /\ gread = <<>>
    /\ unsyncWrite = FALSE

IdleSrv ==
    /\ srvLimit = 0
    /\ srvChain = <<>>
    /\ stime = 0
    /\ bucket = 0
    /\ tickerpc = "none"
    /\ refillAt = 0
    /\ sat = <<>>
    /\ lastAdmit = 0 - 1
    /\ admitGap = 1000000

IdleCtx == ctxCancelled = [c \in 1..NumCallers |-> 0]

\* No URL.
NoURL == [scheme |-> "", host |-> "", path |-> <<>>, query |-> <<>>]

IdleProxy ==
    /\ reqURL = NoURL
    /\ origURL = NoURL
    /\ sentURLs = <<>>

\* WaitForVideoResult has returned nothing.
NoWaitResult ==
    [kind |-> "none",
     r |-> [resp |-> [ok |-> FALSE, from |-> "none", bytes |-> <<>>, text |-> <<>>,
                      mime |-> ""],
            finished |-> FALSE, err |-> "none"]]

IdleWait ==
    /\ winterval = 0
    /\ wpc = "idle"
    /\ wwoken = "none"
    /\ wctxDone = FALSE
    /\ wtick = FALSE
    /\ wjob = NoJob
    /\ wout = NoWaitResult
    /\ wfirst = "none"
    /\ wlatePoll = FALSE
    /\ wpolls = 0

\* No response object: the nil pointer a poll returns beside an error.
NoResp == [ok |-> FALSE, from |-> "none", bytes |-> <<>>, text |-> <<>>, mime |-> ""]

NoPollResult == [resp |-> NoResp, finished |-> FALSE, err |-> "none"]

IdlePoll ==
    /\ pollIn = <<>>
    /\ pollpc = "idle"
    /\ pollKind = "none"
    /\ pollOut = NoPollResult

IdleKey ==
    /\ keyImpl = "none"
    /\ keyReq = <<>>
    /\ keyOut = <<>>

IdleCache ==
    /\ CachePath = ""
    /\ cacheFile = <<>>
    /\ hpc = <<>>
    /\ hin = <<>>
    /\ afterSuccess = <<>>
    /\ responseData = <<>>
    /\ hresp = <<>>
    /\ readFailed = <<>>
    /\ writeFailed = <<>>
    /\ dispatched = <<>>
    /\ firstBody = <<>>

IdleAuth ==
    /\ AllowedIPs = {}
    /\ AllowedAppIDs = {}
    /\ areq = <<>>
    /\ apc = "idle"
    /\ astatus = 0
    /\ stagesRun = <<>>
    /\ handlerRan = "none"
    /\ acached = FALSE

(***************************************************************************)
(* RateLimitMiddleware                                                     *)
(***************************************************************************)
Callers == 1..NumCallers

\* The zero time.Time a fresh RateLimitMiddleware holds in lastRequest.
ZeroTime == 0 - 1

\* time.Since saturates at the largest Duration for the zero time.
MaxDuration == 1000000

\* time.Since(t) read at the present instant.
Since(t) == IF t = ZeroTime THEN MaxDuration ELSE now - t

Min(a, b) == IF a < b THEN a ELSE b

NewRateLimitMiddleware(d) ==
    /\ minInterval = d
    /\ lastRequest = ZeroTime
    /\ mutex = 0

InitRL ==
    /\ now = 0
    /\ \E d \in 0..MaxInterval : NewRateLimitMiddleware(d)
    /\ rlpc = [c \in Callers |-> "idle"]
    /\ wakeAt = [c \in Callers |-> 0]
    /\ callsDone = [c \in Callers |-> 0]
    /\ stampGap = MaxDuration
    /\ lastDispatch = ZeroTime
    /\ dispatchGap = MaxDuration
    /\ readSinceStamp = FALSE
    /\ sharedStamp = FALSE
    /\ IdleChain
    /\ IdleRetry
    /\ IdlePoll
    /\ IdleKey
    /\ IdleCache
    /\ IdleAuth
    /\ IdleSubmit
    /\ IdleJob
    /\ IdleShared
    /\ IdleSrv
    /\ IdleCtx
    /\ IdleProxy
    /\ IdleWait

\* The wall clock advances between any two steps of any goroutine.
Tick ==
    /\ now < MaxTime
    /\ now' = now + 1
    /\ UNCHANGED <<minInterval, lastRequest, mutex, rlpc, wakeAt, callsDone,
                   stampGap, lastDispatch, dispatchGap, readSinceStamp,
                   sharedStamp>>
    /\ UNCHANGED notRL

\* A RoundTrip whose Lock does not wait for the holder.
RLLockNoMutex(c) ==
    /\ rlpc[c] = "idle"
    /\ callsDone[c] < MaxCalls
    /\ mutex' = c
    /\ rlpc' = [rlpc EXCEPT ![c] = "locked"]
    /\ UNCHANGED <<now, minInterval, lastRequest, wakeAt, callsDone,
                   stampGap, lastDispatch, dispatchGap, readSinceStamp,
                   sharedStamp>>
    /\ UNCHANGED notRL

\* m.mutex.Lock()
RLLock(c) ==
    /\ rlpc[c] = "idle"
    /\ callsDone[c] < MaxCalls
    /\ mutex = 0
    /\ mutex' = c
    /\ rlpc' = [rlpc EXCEPT ![c] = "locked"]
    /\ UNCHANGED <<now, minInterval, lastRequest, wakeAt, callsDone,
                   stampGap, lastDispatch, dispatchGap, readSinceStamp,
                   sharedStamp>>
    /\ UNCHANGED notRL

\* elapsed := time.Since(m.lastRequest); if elapsed < m.minInterval the
\* caller goes to sleep for the remainder, holding the mutex.
RLElapsed(c) ==
    /\ rlpc[c] = "locked"
    /\ LET elapsed == Since(lastRequest)
       IN  IF elapsed < minInterval
           THEN /\ wakeAt' = [wakeAt EXCEPT ![c] = now + (minInterval - elapsed)]
                /\ rlpc' = [rlpc EXCEPT ![c] = "sleep"]
           ELSE /\ wakeAt' = wakeAt
                /\ rlpc' = [rlpc EXCEPT ![c] = "stamp"]
    /\ sharedStamp' = (sharedStamp \/ readSinceStamp)
    /\ readSinceStamp' = TRUE
    /\ UNCHANGED <<now, minInterval, lastRequest, mutex, callsDone,
                   stampGap, lastDispatch, dispatchGap>>
    /\ UNCHANGED notRL

\* time.Sleep returns: no earlier than the requested duration, maybe later.
RLWake(c) ==
    /\ rlpc[c] = "sleep"
    /\ now >= wakeAt[c]
    /\ rlpc' = [rlpc EXCEPT ![c] = "stamp"]
    /\ wakeAt' = [wakeAt EXCEPT ![c] = 0]
    /\ UNCHANGED <<now, minInterval, lastRequest, mutex, callsDone,
                   stampGap, lastDispatch, dispatchGap, readSinceStamp,
                   sharedStamp>>
    /\ UNCHANGED notRL

\* A RoundTrip that returns without Unlock.
RLStampNoUnlock(c) ==
    /\ rlpc[c] = "stamp"
    /\ lastRequest' = now
    /\ stampGap' = Min(stampGap, Since(lastRequest))
    /\ readSinceStamp' = FALSE
    /\ rlpc' = [rlpc EXCEPT ![c] = "dispatch"]
    /\ UNCHANGED <<now, minInterval, mutex, wakeAt, callsDone, lastDispatch,
                   dispatchGap, sharedStamp>>
    /\ UNCHANGED notRL

\* m.lastRequest = time.Now(); m.mutex.Unlock()
RLStampUnlock(c) ==
    /\ rlpc[c] = "stamp"
    /\ lastRequest' = now
    /\ stampGap' = Min(stampGap, Since(lastRequest))
    /\ readSinceStamp' = FALSE
    /\ mutex' = 0
    /\ rlpc' = [rlpc EXCEPT ![c] = "dispatch"]
    /\ UNCHANGED <<now, minInterval, wakeAt, callsDone, lastDispatch,
                   dispatchGap, sharedStamp>>
    /\ UNCHANGED notRL

\* return http.DefaultTransport.RoundTrip(req): the dispatch start.
RLDispatch(c) ==
    /\ rlpc[c] = "dispatch"
    /\ lastDispatch' = now
    /\ dispatchGap' = Min(dispatchGap, Since(lastDispatch))
    /\ callsDone' = [callsDone EXCEPT ![c] = @ + 1]
    /\ rlpc' = [rlpc EXCEPT ![c] = "idle"]
    /\ UNCHANGED <<now, minInterval, lastRequest, mutex, wakeAt, stampGap,
                   readSinceStamp, sharedStamp>>
    /\ UNCHANGED notRL

NextRL ==
    \/ Tick
    \/ \E c \in Callers : RLLock(c)
    \/ \E c \in Callers : RLElapsed(c)
    \/ \E c \in Callers : RLWake(c)
    \/ \E c \in Callers : RLStampUnlock(c)
    \/ \E c \in Callers : RLDispatch(c)

SpecRL == InitRL /\ [][NextRL]_vars

\* C1: any two dispatch starts of callers sharing one RateLimitMiddleware
\* are at least minInterval apart, under every interleaving.
C1_DispatchSpacing == dispatchGap >= minInterval

\* The callers between the read of lastRequest and its write.
InCriticalSection == {c \in Callers : rlpc[c] \in {"locked", "sleep", "stamp"}}

\* C33: the read of lastRequest, the wait and the write of the new value are
\* one critical section: at most one caller is inside it, no two callers
\* compute their delay from the same written value, and every value written
\* after the first is at least minInterval later than the one it replaces.
C33_StampCriticalSection ==
    /\ InCriticalSection \subseteq {mutex}
    /\ ~sharedStamp
    /\ stampGap >= minInterval

\* Two values have been written exactly minInterval apart, and a third call
\* sleeps inside the critical section while the other caller waits to lock.
C33_Witness ==
    /\ minInterval = MaxInterval
    /\ stampGap = minInterval
    /\ \E c \in Callers :
        /\ rlpc[c] = "sleep"
        /\ mutex = c
        /\ \E d \in Callers \ {c} : rlpc[d] = "idle" /\ callsDone[d] < MaxCalls

\* N concurrent callers with one request each: the first RoundTrip of a
\* caller.
RLLockFirst(c) ==
    /\ callsDone[c] = 0
    /\ RLLock(c)

\* Time passes while a caller is in time.Sleep, also beyond MaxTime.
SleepTick ==
    /\ \E c \in Callers : rlpc[c] = "sleep" /\ now < wakeAt[c]
    /\ now' = now + 1
    /\ UNCHANGED <<minInterval, lastRequest, mutex, rlpc, wakeAt, callsDone,
                   stampGap, lastDispatch, dispatchGap, readSinceStamp,
                   sharedStamp>>
    /\ UNCHANGED notRL

NextRLOnce ==
    \/ Tick
    \/ SleepTick
    \/ \E c \in Callers : RLLockFirst(c)
    \/ \E c \in Callers : RLElapsed(c)
    \/ \E c \in Callers : RLWake(c)
    \/ \E c \in Callers : RLStampUnlock(c)
    \/ \E c \in Callers : RLDispatch(c)

\* Fair scheduling: a goroutine that can take a step takes it, a free mutex
\* is acquired by a goroutine blocked in Lock, and a sleep ends.
RLFairness ==
    /\ WF_vars(SleepTick)
    /\ \A c \in Callers :
        /\ WF_vars(RLLockFirst(c))
        /\ WF_vars(RLElapsed(c))
        /\ WF_vars(RLWake(c))
        /\ WF_vars(RLStampUnlock(c))
        /\ WF_vars(RLDispatch(c))

SpecRLFair == InitRL /\ [][NextRLOnce]_vars /\ RLFairness

\* The mutex is held only between Lock and Unlock of the holder.
MutexReleased ==
    mutex # 0 => rlpc[mutex] \in {"locked", "sleep", "stamp"}

\* A caller sleeps for no more than one interval, counted from the stamp
\* of the caller admitted before it.
SleepWithinInterval ==
    \A c \in Callers :
        rlpc[c] = "sleep" =>
            (wakeAt[c] = lastRequest + minInterval /\ wakeAt[c] - now <= minInterval)

\* C39: RoundTrip releases the mutex on every path, and under fair
\* scheduling each of the callers sharing one limiter eventually dispatches
\* its request: none is blocked forever, and each admitted caller sleeps at
\* most one interval after its predecessor, so the k-th within k intervals.
C39_EveryCallerDispatches ==
    /\ [](MutexReleased /\ SleepWithinInterval)
    /\ \A c \in Callers : <>(callsDone[c] = 1 /\ rlpc[c] = "idle")

\* Every caller has dispatched, the last after sleeping a whole interval
\* behind the other.
C39_Witness ==
    /\ \A c \in Callers : callsDone[c] = 1 /\ rlpc[c] = "idle"
    /\ mutex = 0
    /\ minInterval = MaxInterval
    /\ stampGap = minInterval

(***************************************************************************)
(* MiddlewareClient: the transport its operations install, and the path of *)
(* one request through it.                                                 *)
(***************************************************************************)
MaxMiddleware == 3   \* longest interceptor list tried

\* The interceptors of the library and of examples/middleware.
Kinds == {"ratelimit", "retry", "proxy", "logging"}

Ops == {"Upscale", "PollCreativeResult", "GetClient"}

\* The interceptor lists NewMiddlewareClient is given.
MiddlewareLists ==
    UNION {[1..n -> Kinds] : n \in 0..MaxMiddleware}

\* The transport an interceptor forwards to.  RateLimitMiddleware.RoundTrip
\* calls http.DefaultTransport; WithRetry, WithProxy and
\* NewLoggingMiddleware(nil) pass a nil transport, which the constructors
\* replace by http.DefaultTransport.  0 is http.DefaultTransport.
Wrapped(list, i) == 0

\* "for i := len(c.middleware) - 1; i >= 0; i-- { transport = c.middleware[i] }"
\* started with transport = http.DefaultTransport; indices are 1-based here.
RECURSIVE ChainLoop(_, _)
ChainLoop(i, transport) ==
    IF i < 1 THEN transport ELSE ChainLoop(i - 1, i)

ChainTransport(list) == ChainLoop(Len(list), 0)

NewMiddlewareClient(list) ==
    /\ middleware = list
    /\ httpTransport = 0

InitChain ==
    /\ \E list \in MiddlewareLists : NewMiddlewareClient(list)
    /\ chpc = "idle"
    /\ chOp = "none"
    /\ cur = 0
    /\ entered = <<>>
    /\ IdleRL
    /\ IdleRetry
    /\ IdlePoll
    /\ IdleKey
    /\ IdleCache
    /\ IdleAuth
    /\ IdleSubmit
    /\ IdleJob
    /\ IdleShared
    /\ IdleSrv
    /\ IdleCtx
    /\ IdleProxy
    /\ IdleWait

\* MiddlewareClient.Upscale, PollCreativeResult and GetClient up to the
\* assignment c.Client.HTTPClient.Transport = transport.
MCInstall(op) ==
    /\ chpc = "idle"
    /\ httpTransport' = ChainTransport(middleware)
    /\ chOp' = op
    /\ chpc' = "installed"
    /\ UNCHANGED <<middleware, cur, entered>>
    /\ UNCHANGED notChain

\* c.HTTPClient.Do(req) in Client.Upscale / Client.PollCreativeResult (for
\* GetClient: in whichever method the caller invokes on the returned
\* client): the request is handed to HTTPClient.Transport.
ClientDo ==
    /\ chpc = "installed"
    /\ cur' = httpTransport
    /\ entered' = <<>>
    /\ chpc' = "inflight"
    /\ UNCHANGED <<middleware, httpTransport, chOp>>
    /\ UNCHANGED notChain

\* RoundTrip of the interceptor the request is at: it forwards the request
\* to the transport it wraps.
InterceptorRoundTrip ==
    /\ chpc = "inflight"
    /\ cur # 0
    /\ entered' = Append(entered, cur)
    /\ cur' = Wrapped(middleware, cur)
    /\ UNCHANGED <<middleware, httpTransport, chpc, chOp>>
    /\ UNCHANGED notChain

\* http.DefaultTransport.RoundTrip: the request leaves for the network.
NetworkRoundTrip ==
    /\ chpc = "inflight"
    /\ cur = 0
    /\ chpc' = "sent"
    /\ UNCHANGED <<middleware, httpTransport, chOp, cur, entered>>
    /\ UNCHANGED notChain

NextChain ==
    \/ \E op \in Ops : MCInstall(op)
    \/ ClientDo
    \/ InterceptorRoundTrip
    \/ NetworkRoundTrip

SpecChain == InitChain /\ [][NextChain]_vars

\* C8: a request issued through Upscale, PollCreativeResult or the client
\* of GetClient has, when it reaches the network, entered all N
\* interceptors of the list, in list order.
C8_AllInterceptorsInOrder ==
    chpc = "sent" => entered = [i \in 1..Len(middleware) |-> i]

(***************************************************************************)
(* time.Duration arithmetic.  A Duration is a 64-bit two's complement      *)
(* integer of nanoseconds; it is kept here as its limbs, least significant *)
(* first, so that sums and products wrap exactly as int64 does.            *)
(***************************************************************************)
DurationBits == 64

LimbBase == 16 * 16

NumLimbs == DurationBits \div 8

\* The limbs of a natural number n, k of them.
RECURSIVE NatLimbs(_, _)
NatLimbs(n, k) ==
    IF k = 0 THEN <<>> ELSE <<n % LimbBase>> \o NatLimbs(n \div LimbBase, k - 1)

Dur(n) == NatLimbs(n, NumLimbs)

\* x * k + carry for a small natural k, one limb longer than x (no wrap).
RECURSIVE MulLimbs(_, _, _)
MulLimbs(x, k, carry) ==
    IF x = <<>>
    THEN <<carry>>
    ELSE LET p == Head(x) * k + carry
         IN  <<p % LimbBase>> \o MulLimbs(Tail(x), k, p \div LimbBase)

\* x + y + carry for limb sequences of one length, one limb longer.
RECURSIVE AddLimbs(_, _, _)
AddLimbs(x, y, carry) ==
    IF x = <<>>
    THEN <<carry>>
    ELSE LET t == Head(x) + Head(y) + carry
         IN  <<t % LimbBase>> \o AddLimbs(Tail(x), Tail(y), t \div LimbBase)

\* The quotient limbs 1..i of x \div k, rem being the remainder carried down
\* from the limbs above i.
RECURSIVE DivLimbs(_, _, _, _)
DivLimbs(x, k, i, rem) ==
    IF i = 0
    THEN <<>>
    ELSE LET t == rem * LimbBase + x[i]
         IN  Append(DivLimbs(x, k, i - 1, t % k), t \div k)

\* Truncation to int64: the low 64 bits.
Wrap64(x) == SubSeq(x, 1, NumLimbs)

\* int64 product of x and y.
RECURSIVE Mul64(_, _)
Mul64(x, y) ==
    IF y = <<>>
    THEN Dur(0)
    ELSE Wrap64(AddLimbs(Wrap64(MulLimbs(x, Head(y), 0)),
                         Wrap64(<<0>> \o Mul64(x, Tail(y))), 0))

\* int64(1) << n: a shift by the width or more leaves 0.
Shl1(n) ==
    [i \in 1..NumLimbs |->
        IF n < DurationBits /\ i = (n \div 8) + 1 THEN 2 ^ (n % 8) ELSE 0]

\* The sign bit of an int64.
IsNeg(x) == x[NumLimbs] >= LimbBase \div 2

\* x < y for limb sequences of one length read as naturals.
LessU(x, y) ==
    \E i \in 1..Len(x) :
        /\ x[i] < y[i]
        /\ \A j \in (i + 1)..Len(x) : x[j] = y[j]

\* x < y as int64.
Less64(x, y) ==
    IF IsNeg(x) # IsNeg(y) THEN IsNeg(x) ELSE LessU(x, y)

\* -x as int64; for a negative x these are the limbs of |x|.
Neg64(x) ==
    Wrap64(AddLimbs([i \in 1..NumLimbs |-> LimbBase - 1 - x[i]], Dur(0), 1))

MinInt64 == [i \in 1..NumLimbs |-> IF i = NumLimbs THEN LimbBase \div 2 ELSE 0]

MaxInt64 == [i \in 1..NumLimbs |-> IF i = NumLimbs THEN LimbBase \div 2 - 1 ELSE LimbBase - 1]

(***************************************************************************)
(* RetryMiddleware.RoundTrip: one call, against a wrapped transport that   *)
(* may answer each dispatch in any way.                                    *)
(***************************************************************************)
MaxRetries == 2      \* largest small maxRetries tried
MaxBodyLen == 2      \* longest request body tried, in bytes
DeepRetries == 36    \* a maxRetries large enough for baseDelay << attempt to wrap

RetryCounts == (0..MaxRetries) \cup {DeepRetries}

\* The delays of the README: WithRetry(3, 1*time.Second, 10*time.Second),
\* and a zero base delay.
Second == Dur(1000000000)

BaseDelays == {Dur(0), Second}

MaxDelays == {Wrap64(MulLimbs(Second, 10, 0))}

Statuses == {200, 400, 429, 500}

\* An io.ReadCloser over bytes, read up to an offset; one whose Read fails.
Reader(data, pos) == [kind |-> "reader", data |-> data, pos |-> pos]

FailingReader == [kind |-> "failing", data |-> <<>>, pos |-> 0]

\* The bodies a request is given: nil (a GET), an unread body that is empty
\* or holds MaxBodyLen bytes, or a body that cannot be read.
BodyText == <<"b1", "b2", "b3", "b4">>

RequestBodies ==
    {NilBody, FailingReader}
        \cup {Reader(SubSeq(BodyText, 1, n), 0) : n \in {0, MaxBodyLen}}

\* The deep configuration is there for the arithmetic of the delay: it is
\* run for a request without a body.
BodiesFor(r) == IF r > MaxRetries THEN {NilBody} ELSE RequestBodies

\* createReadCloser(b): io.NopCloser(bytes.NewReader(b))
createReadCloser(b) == Reader(b, 0)

\* io.ReadAll(r): the bytes from the read offset to the end, in a slice
\* that is never nil.
ReadAll(r) == [isNil |-> FALSE, data |-> SubSeq(r.data, r.pos + 1, Len(r.data))]

\* Lines 85-88: "if attempt > 0 && bodyBytes != nil" the body is replaced by
\* a new reader over the copy; the body the attempt is dispatched with.
BodyNotRestored(a) == reqBody
BodyOfAttempt(a) ==
    IF a > 0 /\ ~bodyBytes.isNil THEN createReadCloser(bodyBytes.data) ELSE reqBody

\* What the wrapped transport may leave of the body it was handed: it reads
\* any part of what is left.
AfterTransport(body) ==
    IF body.kind = "reader"
    THEN {Reader(body.data, p) : p \in body.pos..Len(body.data)}
    ELSE {body}

\* A new reader, at offset 0, over the bytes the caller supplied.
FreshOriginal(body) ==
    body = (IF origBody.kind = "reader" THEN Reader(origBody.data, 0) ELSE origBody)

\* What m.transport.RoundTrip(req) returns: an error and no response, or a
\* response with a status and no error.
Outcomes ==
    {[err |-> TRUE, status |-> 0]} \cup {[err |-> FALSE, status |-> st] : st \in Statuses}

\* rand.Float64() in addJitter, as the factor 1 - 0.2 + 2*0.2*rand in tenths.
JitterTenths == {8, 10, 12}

\* A float64 outside the int64 range converts to an implementation-dependent
\* value.
ConvOutOfRange == {MinInt64, MaxInt64}

\* addJitter(d, 0.2) with the factor j/10: time.Duration(float64(d) * factor),
\* truncated towards zero.
addJitter(d, j, conv) ==
    LET neg == IsNeg(d)
        mag == IF neg THEN Neg64(d) ELSE d
        scaled == DivLimbs(MulLimbs(mag, j, 0), 10, NumLimbs + 1, 0)
        low == Wrap64(scaled)
        fits == /\ scaled[NumLimbs + 1] = 0
                /\ \/ ~IsNeg(low)
                   \/ neg /\ low = MinInt64
    IN  IF ~fits THEN conv
        ELSE IF neg THEN Neg64(low) ELSE low

\* delay := m.baseDelay * (1 << uint(attempt)); if delay > m.maxDelay
\* { delay = m.maxDelay }
BackoffDelay(a) ==
    LET d == Mul64(baseDelay, Shl1(a))
    IN  IF Less64(maxDelay, d) THEN maxDelay ELSE d

\* A timer of a duration <= 0 has expired when it is created.
TimerExpired(d) == ~Less64(Dur(0), d)

\* err == nil && (resp.StatusCode < 500 && resp.StatusCode != 429)
AcceptableBelow400(out) == ~out.err /\ out.status < 400
AcceptableNoError(out) == ~out.err
Acceptable(out) == ~out.err /\ (out.status < 500 /\ out.status # 429)

\* if attempt == m.maxRetries
LastAttempt(a) == a = maxRetries

\* if err != nil { return nil, err }; return resp, nil
\* (a response and an error carry the number of the dispatch they come from)
ExhaustedSynthesized(out, id) ==
    [resp |-> 0, status |-> 0, err |-> "exhausted", errOf |-> 0]
ExhaustedResult(out, id) ==
    IF out.err
    THEN [resp |-> 0, status |-> 0, err |-> "transport", errOf |-> id]
    ELSE [resp |-> id, status |-> out.status, err |-> "nil", errOf |-> 0]

\* attempt++ and the loop condition attempt <= m.maxRetries
NextAttemptStuck(a) == a
NextAttempt(a) == a + 1

LoopGuard(a) == a <= maxRetries

NewRetryMiddleware(r, base, max) ==
    /\ maxRetries = r
    /\ baseDelay = base
    /\ maxDelay = max

\* One call of RoundTrip about to start, on a new RetryMiddleware.
RetryStart(counts) ==
    /\ \E r \in counts, base \in BaseDelays, max \in MaxDelays :
          NewRetryMiddleware(r, base, max)
    /\ reqBody \in BodiesFor(maxRetries)
    /\ bodyBytes = NilBytes
    /\ origBody = reqBody
    /\ bodyReads = 0
    /\ sentStale = FALSE
    /\ rtpc = "start"
    /\ attempt = 0
    /\ lastOut = NoOutcome
    /\ lastClosed = FALSE
    /\ delay = Dur(0)
    /\ timerFired = FALSE
    /\ ctxDone = FALSE
    /\ woken = "none"
    /\ result = NoResult
    /\ dispatchCount = 0
    /\ waitCount = 0
    /\ failures = 0
    /\ firstOut = NoOutcome

InitRetry ==
    /\ RetryStart(RetryCounts)
    /\ IdleRL
    /\ IdleChain
    /\ IdlePoll
    /\ IdleKey
    /\ IdleCache
    /\ IdleAuth
    /\ IdleSubmit
    /\ IdleJob
    /\ IdleShared
    /\ IdleSrv
    /\ IdleCtx
    /\ IdleProxy
    /\ IdleWait

\* The claims' notion of a retryable outcome: a transport error, 5xx or 429.
ClaimRetryable(out) == out.err \/ out.status >= 500 \/ out.status = 429

\* Lines 74-81: the body, if any, is read once and replaced by a fresh
\* reader over the copy; a read error is returned.
RetryBegin ==
    /\ rtpc = "start"
    /\ IF reqBody.kind = "nil"
       THEN /\ rtpc' = "attempt"
            /\ UNCHANGED <<reqBody, bodyBytes, bodyReads, result>>
       ELSE IF reqBody.kind = "failing"
       THEN /\ result' = [resp |-> 0, status |-> 0, err |-> "read", errOf |-> 0]
            /\ rtpc' = "done"
            /\ UNCHANGED <<reqBody, bodyBytes, bodyReads>>
       ELSE /\ rtpc' = "attempt"
            /\ bodyBytes' = ReadAll(reqBody)
            /\ reqBody' = createReadCloser(bodyBytes'.data)
            /\ bodyReads' = bodyReads + 1
            /\ UNCHANGED result
    /\ UNCHANGED <<maxRetries, baseDelay, maxDelay, origBody, sentStale, attempt,
                   lastOut,
                   lastClosed, delay, timerFired, ctxDone, woken,
                   dispatchCount, waitCount, failures, firstOut>>
    /\ UNCHANGED notRetry

\* Lines 85-91: on a retry the body is restored, then the request is handed
\* to the wrapped transport, which consumes the body and answers.
Dispatch(out) ==
    /\ rtpc = "attempt"
    /\ LET sent == BodyOfAttempt(attempt)
       IN  /\ sentStale' = (sentStale \/ ~FreshOriginal(sent))
           /\ reqBody' \in AfterTransport(sent)
    /\ lastOut' = out
    /\ lastClosed' = FALSE
    /\ dispatchCount' = dispatchCount + 1
    /\ failures' = IF ClaimRetryable(out) THEN failures + 1 ELSE failures
    /\ firstOut' = IF dispatchCount = 0 THEN out ELSE firstOut
    /\ rtpc' = "decide"
    /\ UNCHANGED <<maxRetries, baseDelay, maxDelay, bodyBytes, origBody,
                   bodyReads, attempt, delay, timerFired, ctxDone, woken, result,
                   waitCount>>

\* The wrapped transport is the network.
RetryDispatch(out) ==
    /\ Dispatch(out)
    /\ UNCHANGED notRetry

\* Lines 93-121: accept the response, or give up after the last attempt, or
\* close the failed response and start the backoff timer.
RetryDecide(j, conv) ==
    /\ rtpc = "decide"
    /\ IF Acceptable(lastOut)
       THEN /\ result' = [resp |-> dispatchCount, status |-> lastOut.status,
                          err |-> "nil", errOf |-> 0]
            /\ rtpc' = "done"
            /\ UNCHANGED <<lastClosed, delay, timerFired, waitCount>>
       ELSE IF LastAttempt(attempt)
       THEN /\ result' = ExhaustedResult(lastOut, dispatchCount)
            /\ rtpc' = "done"
            /\ UNCHANGED <<lastClosed, delay, timerFired, waitCount>>
       ELSE /\ lastClosed' = ~lastOut.err
            /\ delay' = addJitter(BackoffDelay(attempt), j, conv)
            /\ timerFired' = TimerExpired(delay')
            /\ waitCount' = waitCount + 1
            /\ rtpc' = "wait"
            /\ UNCHANGED result
    /\ UNCHANGED <<maxRetries, baseDelay, maxDelay, reqBody, bodyBytes,
                   origBody, bodyReads, sentStale, attempt,
                   lastOut, ctxDone, woken, dispatchCount, failures, firstOut>>
    /\ UNCHANGED notRetry

\* case <-req.Context().Done(): timer.Stop(); return nil, req.Context().Err()
ReturnCtx ==
    /\ result' = [resp |-> 0, status |-> 0, err |-> "ctx", errOf |-> 0]
    /\ rtpc' = "done"
    /\ woken' = "none"
    /\ UNCHANGED <<attempt, timerFired>>

\* case <-timer.C: the next iteration of the loop, or, were the loop
\* condition false, the final "return resp, err".
Continue ==
    /\ attempt' = NextAttempt(attempt)
    /\ IF LoopGuard(attempt')
       THEN /\ rtpc' = "attempt"
            /\ UNCHANGED result
       ELSE /\ rtpc' = "done"
            /\ result' = ExhaustedResult(lastOut, dispatchCount)
    /\ woken' = "none"
    /\ timerFired' = FALSE

\* The select is entered: a case that is ready is taken, any one of them
\* when both are; with none ready the goroutine blocks on both channels.
RetrySelect ==
    /\ rtpc = "wait"
    /\ \/ ctxDone /\ ReturnCtx
       \/ timerFired /\ Continue
       \/ /\ ~ctxDone
          /\ ~timerFired
          /\ rtpc' = "parked"
          /\ UNCHANGED <<attempt, timerFired, woken, result>>
    /\ UNCHANGED <<maxRetries, baseDelay, maxDelay, reqBody, bodyBytes,
                   origBody, bodyReads, sentStale, lastOut,
                   lastClosed, delay, ctxDone, dispatchCount, waitCount,
                   failures, firstOut>>
    /\ UNCHANGED notRetry

\* The delay elapses.  A goroutine blocked in the select is woken by the
\* first channel that becomes ready.
TimerFire ==
    /\ rtpc \in {"wait", "parked"}
    /\ ~timerFired
    /\ timerFired' = TRUE
    /\ woken' = IF rtpc = "parked" /\ woken = "none" THEN "timer" ELSE woken
    /\ UNCHANGED <<maxRetries, baseDelay, maxDelay, reqBody, bodyBytes,
                   origBody, bodyReads, sentStale, rtpc,
                   attempt, lastOut, lastClosed, delay, ctxDone, result,
                   dispatchCount, waitCount, failures, firstOut>>
    /\ UNCHANGED notRetry

\* The request context is cancelled, at any moment of the call.
Cancel ==
    /\ rtpc \notin {"idle", "done"}
    /\ ~ctxDone
    /\ ctxDone' = TRUE
    /\ woken' = IF rtpc = "parked" /\ woken = "none" THEN "ctx" ELSE woken
    /\ UNCHANGED <<maxRetries, baseDelay, maxDelay, reqBody, bodyBytes,
                   origBody, bodyReads, sentStale, rtpc,
                   attempt, lastOut, lastClosed, delay, timerFired, result,
                   dispatchCount, waitCount, failures, firstOut>>
    /\ UNCHANGED notRetry

\* The goroutine blocked in the select runs again, with the case that woke it.
RetryWake ==
    /\ rtpc = "parked"
    /\ woken # "none"
    /\ \/ woken = "ctx" /\ ReturnCtx
       \/ woken = "timer" /\ Continue
    /\ UNCHANGED <<maxRetries, baseDelay, maxDelay, reqBody, bodyBytes,
                   origBody, bodyReads, sentStale, lastOut,
                   lastClosed, delay, ctxDone, dispatchCount, waitCount,
                   failures, firstOut>>
    /\ UNCHANGED notRetry

NextRetry ==
    \/ RetryBegin
    \/ \E out \in Outcomes : RetryDispatch(out)
    \/ \E j \in JitterTenths, conv \in ConvOutOfRange : RetryDecide(j, conv)
    \/ RetrySelect
    \/ TimerFire
    \/ Cancel
    \/ RetryWake

SpecRetry == InitRetry /\ [][NextRetry]_vars

\* C2: one call of RetryMiddleware.RoundTrip dispatches the request to the
\* wrapped transport at most maxRetries + 1 times.
C2_AtMostRPlusOneDispatches == dispatchCount <= maxRetries + 1

C2_Witness ==
    /\ rtpc = "done"
    /\ maxRetries = MaxRetries
    /\ dispatchCount = maxRetries + 1

\* C3: when the first answer of the transport is no error and a status below
\* 500 other than 429 (400 for one), RoundTrip returns that response at once:
\* one dispatch, no backoff wait.
C3_NonRetryableReturnsAtOnce ==
    (dispatchCount >= 1 /\ ~firstOut.err /\ firstOut.status < 500
        /\ firstOut.status # 429) =>
        /\ dispatchCount = 1
        /\ waitCount = 0
        /\ rtpc \in {"decide", "done"}
        /\ rtpc = "done" =>
              result = [resp |-> 1, status |-> firstOut.status, err |-> "nil",
                        errOf |-> 0]

C3_Witness ==
    /\ rtpc = "done"
    /\ maxRetries >= 1
    /\ ~firstOut.err
    /\ firstOut.status = 400
    /\ result.status = 400

\* C4: if the transport fails retryably k <= maxRetries times and then gives
\* an acceptable response, and the call does not end on a cancelled context,
\* RoundTrip makes exactly k + 1 dispatches and returns that response; it
\* stops earlier only for lack of attempts.
C4_ReturnsFirstAcceptable ==
    (rtpc = "done" /\ result.err \notin {"ctx", "read"}) =>
        IF ClaimRetryable(lastOut)
        THEN failures = maxRetries + 1
        ELSE /\ failures <= maxRetries
             /\ dispatchCount = failures + 1
             /\ result = [resp |-> dispatchCount, status |-> lastOut.status,
                          err |-> "nil", errOf |-> 0]

C4_Witness ==
    /\ rtpc = "done"
    /\ ~ctxDone
    /\ firstOut = [err |-> FALSE, status |-> 500]
    /\ failures = 1
    /\ dispatchCount = 2
    /\ result = [resp |-> 2, status |-> 200, err |-> "nil", errOf |-> 0]

\* C5: when every attempt failed retryably and none remains, RoundTrip
\* returns the outcome of the last attempt alone: its error, or its response
\* with the status it came with, its body not closed, and a nil error.
C5_ExhaustedReturnsLastOutcome ==
    (rtpc = "done" /\ failures = maxRetries + 1) =>
        /\ dispatchCount = maxRetries + 1
        /\ IF lastOut.err
           THEN result = [resp |-> 0, status |-> 0, err |-> "transport",
                          errOf |-> dispatchCount]
           ELSE /\ result = [resp |-> dispatchCount, status |-> lastOut.status,
                             err |-> "nil", errOf |-> 0]
                /\ ~lastClosed

C5_Witness ==
    /\ rtpc = "done"
    /\ maxRetries = MaxRetries
    /\ failures = maxRetries + 1
    /\ lastOut = [err |-> FALSE, status |-> 500]
    /\ result.status = 500

\* C6: a wait that finds the context cancelled ends with the context's
\* error and no further dispatch, whatever the delay.
C6_CancellationPreemptsWait ==
    [][(rtpc = "wait" /\ ctxDone /\ rtpc' # "wait") =>
           (rtpc' = "done" /\ result'.err = "ctx")]_vars

\* min(maxDelay, baseDelay * 2^a) over the integers, for delays >= 0, as
\* limbs of twice the width.
WideLimbs == 2 * NumLimbs + 1

PadWide(x) == x \o [i \in 1..(WideLimbs - Len(x)) |-> 0]

TrueCap(a) ==
    LET shifted == PadWide([i \in 1..(a \div 8) |-> 0]
                           \o MulLimbs(baseDelay, 2 ^ (a % 8), 0))
    IN  IF baseDelay = Dur(0) THEN PadWide(Dur(0))
        ELSE IF a >= DurationBits THEN PadWide(maxDelay)
        ELSE IF LessU(shifted, PadWide(maxDelay)) THEN shifted
        ELSE PadWide(maxDelay)

\* C7: the wait before attempt i >= 1 lies in
\* [0.8 * min(max, base * 2^(i-1)), 1.2 * min(max, base * 2^(i-1))], up to
\* the truncation to whole nanoseconds; it is never negative, also when
\* base * 2^(i-1) does not fit 64 bits.
C7_DelayWithinJitterBand ==
    rtpc \in {"wait", "parked"} =>
        LET cap == TrueCap(attempt)
            d10 == MulLimbs(PadWide(delay), 10, 0)
        IN  /\ ~IsNeg(delay)
            /\ ~LessU(MulLimbs(cap, 12, 0), d10)
            /\ LessU(MulLimbs(cap, 8, 0) \o <<0>>,
                     AddLimbs(d10, NatLimbs(10, WideLimbs + 1), 0))

\* C35: for a request with a body, the body is read exactly once, and every
\* attempt, the first and each retry, is dispatched with a new reader at
\* offset 0 over the bytes the caller supplied; no retry carries an empty or
\* partly consumed body.
C35_FreshBodyEveryAttempt ==
    origBody.kind = "reader" =>
        /\ ~sentStale
        /\ bodyReads <= 1
        /\ dispatchCount > 0 => bodyReads = 1

\* A body of MaxBodyLen bytes was dispatched three times, and the transport
\* read the latest copy to its end.
C35_Witness ==
    /\ origBody = Reader(SubSeq(BodyText, 1, MaxBodyLen), 0)
    /\ dispatchCount = 3
    /\ bodyReads = 1
    /\ reqBody = Reader(origBody.data, MaxBodyLen)
    /\ ~sentStale

(***************************************************************************)
(* Client.PollVideoResult and Client.PollCreativeResult: one poll of a job *)
(* against an upstream that may answer in any way.                         *)
(***************************************************************************)
MaxFieldLen == 5     \* longest text tried after the prefix of a payload field

PollStatuses == {200, 202, 400, 403, 404, 500}

\* The body of an answer whose status is not 200, as json.Unmarshal into
\* ErrorResponse reads it: json says that it parsed; name and message are
\* the fields read (empty when the body has none).
SafetyMessage == "Your request has been rejected as a result of our safety system."
ErrorNames == {"", "content_policy_violation", "safety_violation", "forbidden"}
ErrorMessages == {"", SafetyMessage, "denied"}

ErrorResponse(name, message) == [json |-> TRUE, name |-> name, message |-> message]
Unparseable == [json |-> FALSE, name |-> "", message |-> ""]
NoErrorBody == ErrorResponse("", "")

ErrorResponses ==
    {Unparseable} \cup {ErrorResponse(n, msg) : n \in ErrorNames, msg \in ErrorMessages}

\* The content-policy test of a parsed 403 body.
IsContentPolicyByNameOnly(e) ==
    \/ e.name = "content_policy_violation"
    \/ e.name = "safety_violation"
IsContentPolicy(e) ==
    \/ e.name = "content_policy_violation"
    \/ e.name = "safety_violation"
    \/ e.message = SafetyMessage

\* The error kind of an answer whose status is not 200, the same in the
\* submits and the polls: "policy" is an error that begins "content policy
\* violation:", "forbidden" one that begins "forbidden:", "api" one that
\* names the status.
ErrorKindOf(status, e) ==
    IF e.json
    THEN IF status = 403
         THEN IF IsContentPolicy(e) THEN "policy" ELSE "forbidden"
         ELSE "api"
    ELSE IF status = 403 THEN "policy" ELSE "api"

\* The text of a payload field is a sequence of characters.  DataTag stands
\* for the text "data:video/mp4;base64", which holds no comma.
DataTag == "data:"
Comma == ","
FieldChars == {"Q", "=", " ", "-"}

FieldCores == UNION {[1..n -> FieldChars] : n \in 0..MaxFieldLen}

\* A field as sent: plain, behind a data-URL prefix, a prefix alone, or
\* text with more than one comma.
FieldTexts ==
    FieldCores
        \cup {<<DataTag, Comma>> \o c : c \in FieldCores}
        \cup {<<DataTag>>, <<DataTag, Comma, "Q", Comma, "Q">>}

\* The video / image key of the body: absent, or a string.
Fields ==
    {[present |-> FALSE, s |-> <<>>]}
        \cup {[present |-> TRUE, s |-> t] : t \in FieldTexts}

NoField == [present |-> FALSE, s |-> <<>>]

\* The body of the upstream answer, by what the poll reads of it:
\*   shape     "schema": a JSON object whose known fields have their types;
\*             "badtype": a JSON object with a known field of another type;
\*             "invalid": not JSON
\*   finished, error, mime: the fields of the result document
\*   payload   the video / image field
\*   magic     the body begins with the bytes "AAAAI" (then it is not JSON)
\*   ftyp      the bytes "ftyp" occur in the first 100 bytes
\*   errBody   for an error answer: what json.Unmarshal into ErrorResponse
\*             makes of the body (see ErrorResponses)
PollBody(shape, finished, error, payload, mime, magic, ftyp, errBody) ==
    [shape |-> shape, finished |-> finished, error |-> error,
     payload |-> payload, mime |-> mime, magic |-> magic, ftyp |-> ftyp,
     errBody |-> errBody]

\* Bodies that parse into the result document.
SchemaBodies ==
    {PollBody("schema", f, e, p, m, FALSE, t, NoErrorBody) :
        f \in BOOLEAN, e \in {"", "boom"}, p \in Fields,
        m \in {"", "video/mp4"}, t \in BOOLEAN}

\* Bodies that do not: a JSON object with a wrongly typed field, and bytes
\* that are no JSON at all.
OtherBodies ==
    {PollBody("badtype", f, "", NoField, "", FALSE, t, NoErrorBody) :
        f \in BOOLEAN, t \in BOOLEAN}
        \cup {PollBody("invalid", FALSE, "", NoField, "", g, t, NoErrorBody) :
                g \in BOOLEAN, t \in BOOLEAN}

\* Bodies of an answer whose status is not 200.
ErrorBodies ==
    {PollBody(IF e.json THEN "schema" ELSE "invalid", FALSE, "", NoField, "",
              FALSE, FALSE, e) : e \in ErrorResponses}

PollInputs ==
    {[doErr |-> TRUE, status |-> 0, body |-> b] : b \in ErrorBodies}
        \cup {[doErr |-> FALSE, status |-> s, body |-> b] :
                s \in PollStatuses \ {200}, b \in ErrorBodies}
        \cup {[doErr |-> FALSE, status |-> 200, body |-> b] :
                b \in SchemaBodies \cup OtherBodies}

\* The *ImageToVideoResponse / *UpscaleResponse a poll returns: from says
\* where the data came from; bytes holds decoded bytes, text the characters
\* of a field taken literally; data from "body" is the body itself.
Resp(from, bytes, text, mime) ==
    [ok |-> TRUE, from |-> from, bytes |-> bytes, text |-> text, mime |-> mime]

PollResult(resp, finished, err) ==
    [resp |-> resp, finished |-> finished, err |-> err]

\* The handling of a non-200 answer, the same in both polls.
NonOKError(in) ==
    PollResult(NoResp, FALSE, ErrorKindOf(in.status, in.body.errBody))

\* if resultResp.Error != ""
VideoProcessingErrorIfUnfinished(body) == body.error # "" /\ ~body.finished
VideoProcessingError(body) == body.error # ""

CreativeProcessingError(body) == body.error # ""

\* if !resultResp.Finished
VideoNotFinishedUnlessPayload(body) == ~body.finished /\ ~body.payload.present
VideoNotFinished(body) == ~body.finished

CreativeNotFinished(body) == ~body.finished

\* The decodeMap of base64.StdEncoding: the 6-bit value of a character,
\* 255 (0xff) for a character outside the alphabet and past the end.
B64Value(c) ==
    CASE c = "A" -> 0
      [] c = "Q" -> 16
      [] c = "g" -> 32
      [] c = "w" -> 48
      [] OTHER -> 255

\* One quantum of base64.StdEncoding at position si: four characters give
\* three bytes; "==" after two and "=" after three characters end the
\* input, and anything after the padding is an error.  (The decoder skips
\* "\r" and "\n"; FieldChars holds neither.)
B64Quantum(s, si) ==
    LET At(j) == IF si + j <= Len(s) THEN s[si + j] ELSE ""
        v0 == B64Value(At(0))
        v1 == B64Value(At(1))
        v2 == B64Value(At(2))
        v3 == B64Value(At(3))
        b0 == v0 * 4 + (v1 \div 16)
        b1 == (v1 % 16) * 16 + (v2 \div 4)
        b2 == (v2 % 4) * 64 + v3
        Bad == [err |-> TRUE, last |-> TRUE, bytes |-> <<>>]
    IN  IF v0 = 255 \/ v1 = 255 THEN Bad
        ELSE IF v2 # 255
        THEN IF v3 # 255
             THEN [err |-> FALSE, last |-> FALSE, bytes |-> <<b0, b1, b2>>]
             ELSE IF At(3) = "=" /\ si + 3 = Len(s)
                  THEN [err |-> FALSE, last |-> TRUE, bytes |-> <<b0, b1>>]
                  ELSE Bad
        ELSE IF At(2) = "=" /\ At(3) = "=" /\ si + 3 = Len(s)
             THEN [err |-> FALSE, last |-> TRUE, bytes |-> <<b0>>]
             ELSE Bad

\* base64.StdEncoding.DecodeString, as its callers use it: the bytes when
\* err is nil.  The empty string decodes to no bytes without an error.
RECURSIVE B64DecodeFrom(_, _)
B64DecodeFrom(s, si) ==
    IF si > Len(s) THEN [err |-> FALSE, bytes |-> <<>>]
    ELSE LET q == B64Quantum(s, si)
         IN  IF q.err THEN [err |-> TRUE, bytes |-> <<>>]
             ELSE IF q.last THEN [err |-> FALSE, bytes |-> q.bytes]
             ELSE LET rest == B64DecodeFrom(s, si + 4)
                  IN  [err |-> rest.err,
                       bytes |-> IF rest.err THEN <<>> ELSE q.bytes \o rest.bytes]

DecodeString(s) == B64DecodeFrom(s, 1)

\* strings.HasPrefix(base64Data, "data:")
HasDataPrefix(s) == Len(s) > 0 /\ s[1] = DataTag

\* strings.Split(base64Data, ","): the number of parts, and the second.
NumParts(s) == Cardinality({i \in 1..Len(s) : s[i] = Comma}) + 1

SecondPart(s) ==
    LET first == CHOOSE i \in 1..Len(s) : s[i] = Comma /\ \A k \in 1..(i - 1) : s[k] # Comma
    IN  SubSeq(s, first + 1, Len(s))

\* "if strings.HasPrefix(...) { parts := ...; if len(parts) == 2 {...} }"
StripDataPrefix(s) ==
    IF HasDataPrefix(s) /\ NumParts(s) = 2 THEN SecondPart(s) ELSE s

\* The four strings.ReplaceAll calls: " ", "\n", "\r", "\t".
StrippedChars == {" ", "\n", "\r", "\t"}

StripWhitespaceNone(s) == s
StripWhitespace(s) == SelectSeq(s, LAMBDA c : c \notin StrippedChars)

\* Strategy 1: the video field, when not empty, without prefix and
\* whitespace, base64-decoded; videoData stays nil on a decoding error.
VideoStandard(body) ==
    IF body.payload.s # <<>>
    THEN LET d == DecodeString(StripWhitespace(StripDataPrefix(body.payload.s)))
         IN  IF ~d.err
             THEN Resp("base64", d.bytes, <<>>, body.mime)
             ELSE NoResp
    ELSE NoResp

\* Strategy 2: the video key of the generic JSON map, as the bytes of its
\* string.
VideoDirectNever(body) == NoResp
VideoDirect(body) ==
    IF body.payload.present
    THEN Resp("field", <<>>, body.payload.s, body.mime)
    ELSE NoResp

\* Strategy 3: a body that looks like MP4 data is the video itself.  Any
\* body that reached this point is longer than 5 bytes.
VideoRaw(body) ==
    IF body.magic \/ body.ftyp
    THEN Resp("body", <<>>, <<>>, body.mime)
    ELSE NoResp

\* videoData == nil || len(videoData) == 0
IsEmpty(r) == ~r.ok \/ (r.from # "body" /\ r.bytes = <<>> /\ r.text = <<>>)

ExtractVideo(body) ==
    LET d1 == VideoStandard(body)
        d2 == IF IsEmpty(d1) THEN VideoDirect(body) ELSE d1
        d3 == IF IsEmpty(d2) THEN VideoRaw(body) ELSE d2
    IN  IF IsEmpty(d3)
        THEN PollResult(NoResp, TRUE, "extract")
        ELSE PollResult(d3, TRUE, "nil")

PollVideoResultOf(in) ==
    IF in.doErr THEN PollResult(NoResp, FALSE, "send")
    ELSE IF in.status = 202 THEN PollResult(NoResp, FALSE, "nil")
    ELSE IF in.status # 200 THEN NonOKError(in)
    ELSE IF in.body.shape # "schema" THEN PollResult(NoResp, FALSE, "decode")
    ELSE IF VideoProcessingError(in.body) THEN PollResult(NoResp, FALSE, "processing")
    ELSE IF VideoNotFinished(in.body) THEN PollResult(NoResp, FALSE, "nil")
    ELSE ExtractVideo(in.body)

\* base64.StdEncoding.DecodeString(resultResp.Image), the field as it is.
DecodeImage(body) ==
    LET d == DecodeString(body.payload.s)
    IN  IF d.err
        THEN PollResult(NoResp, TRUE, "base64")
        ELSE PollResult(Resp("base64", d.bytes, <<>>, body.mime), TRUE, "nil")

PollCreativeResultOf(in) ==
    IF in.doErr THEN PollResult(NoResp, FALSE, "send")
    ELSE IF in.status # 200 THEN NonOKError(in)
    ELSE IF in.body.shape # "schema" THEN PollResult(NoResp, FALSE, "decode")
    ELSE IF CreativeProcessingError(in.body) THEN PollResult(NoResp, FALSE, "processing")
    ELSE IF CreativeNotFinished(in.body) THEN PollResult(NoResp, FALSE, "nil")
    ELSE DecodeImage(in.body)

InitPoll ==
    /\ pollIn \in PollInputs
    /\ pollpc = "ready"
    /\ pollKind = "none"
    /\ pollOut = NoPollResult
    /\ IdleRL
    /\ IdleChain
    /\ IdleRetry
    /\ IdleKey
    /\ IdleCache
    /\ IdleAuth
    /\ IdleSubmit
    /\ IdleJob
    /\ IdleShared
    /\ IdleSrv
    /\ IdleCtx
    /\ IdleProxy
    /\ IdleWait

PollVideoResult ==
    /\ pollpc = "ready"
    /\ pollKind' = "video"
    /\ pollOut' = PollVideoResultOf(pollIn)
    /\ pollpc' = "returned"
    /\ UNCHANGED pollIn
    /\ UNCHANGED notPoll

PollCreativeResult ==
    /\ pollpc = "ready"
    /\ pollKind' = "creative"
    /\ pollOut' = PollCreativeResultOf(pollIn)
    /\ pollpc' = "returned"
    /\ UNCHANGED pollIn
    /\ UNCHANGED notPoll

NextPoll ==
    \/ PollVideoResult
    \/ PollCreativeResult

SpecPoll == InitPoll /\ [][NextPoll]_vars

\* A poll that got a 200 answer whose body parsed into the result document.
ParsedOK ==
    /\ pollpc = "returned"
    /\ ~pollIn.doErr
    /\ pollIn.status = 200
    /\ pollIn.body.shape = "schema"

\* C9: for either job kind, a poll answered 202 returns finished=false with
\* no error and no result, and one answered any other non-200 status
\* returns an error.
C9_AcceptedIsNotFinished ==
    (pollpc = "returned" /\ ~pollIn.doErr) =>
        /\ pollIn.status = 202 => pollOut = PollResult(NoResp, FALSE, "nil")
        /\ pollIn.status \notin {200, 202} => pollOut.err # "nil"

\* C10: a 200 poll body whose parsed document has a non-empty error field
\* gives a processing error and no payload, whatever its finished flag and
\* payload field.
C10_ErrorFieldFirst ==
    (ParsedOK /\ pollIn.body.error # "") =>
        pollOut = PollResult(NoResp, FALSE, "processing")

C10_Witness ==
    /\ ParsedOK
    /\ pollKind = "video"
    /\ pollIn.body.error # ""
    /\ pollIn.body.finished
    /\ pollIn.body.payload.s = <<"Q", "Q", "=", "=">>
    /\ pollOut.err = "processing"

ClaimPlain(s) ==
    LET t == IF Len(s) >= 2 /\ s[1] = DataTag /\ s[2] = Comma
             THEN SubSeq(s, 3, Len(s))
             ELSE s
    IN  SelectSeq(t, LAMBDA c : c \notin {" ", "\t", "\n", "\r"})

\* C12: when the document has finished=true, no error and a video field
\* that without data-URL prefix and whitespace base64-decodes to one or
\* more bytes, PollVideoResult returns exactly those bytes with the mime
\* type of the document; strategies 2 and 3 leave no trace.
C12_StandardFieldDecoded ==
    (ParsedOK /\ pollKind = "video" /\ pollIn.body.finished
        /\ pollIn.body.error = "" /\ pollIn.body.payload.present) =>
        LET d == DecodeString(ClaimPlain(pollIn.body.payload.s))
        IN  (~d.err /\ d.bytes # <<>>) =>
                pollOut = PollResult(Resp("base64", d.bytes, <<>>, pollIn.body.mime),
                                     TRUE, "nil")

C12_Witness ==
    /\ ParsedOK
    /\ pollKind = "video"
    /\ pollIn.body.finished
    /\ pollIn.body.error = ""
    /\ pollIn.body.payload.s = <<DataTag, Comma, "Q", "Q", " ", "=", "=">>
    /\ pollIn.body.mime = "video/mp4"
    /\ pollIn.body.ftyp
    /\ pollOut = PollResult(Resp("base64", <<65>>, <<>>, "video/mp4"), TRUE, "nil")

\* The video field is text that is no base64.
ClaimNotBase64(body) ==
    /\ body.payload.present
    /\ DecodeString(ClaimPlain(body.payload.s)).err

\* C13 as stated: a body that is valid JSON with a video field that is not
\* base64, e.g. {"video":"abc"}, gives a finished result whose payload is
\* the literal bytes of the field.
C13_LiteralField ==
    (ParsedOK /\ pollKind = "video" /\ pollIn.body.error = ""
        /\ ClaimNotBase64(pollIn.body)) =>
        pollOut = PollResult(Resp("field", <<>>, pollIn.body.payload.s, pollIn.body.mime),
                             TRUE, "nil")

\* C13 amended: the same for a body whose document also has finished=true.
C13_LiteralFieldWhenFinished ==
    (ParsedOK /\ pollKind = "video" /\ pollIn.body.error = ""
        /\ pollIn.body.finished /\ ClaimNotBase64(pollIn.body)) =>
        pollOut = PollResult(Resp("field", <<>>, pollIn.body.payload.s, pollIn.body.mime),
                             TRUE, "nil")

C13_Witness ==
    /\ ParsedOK
    /\ pollKind = "video"
    /\ pollIn.body.error = ""
    /\ pollIn.body.finished
    /\ pollIn.body.payload.s = <<"Q", "Q", "Q">>
    /\ pollOut.finished
    /\ pollOut.err = "nil"
    /\ pollOut.resp.from = "field"
    /\ pollOut.resp.text = <<"Q", "Q", "Q">>

\* C14: a 200 body that is not the JSON document but raw bytes with a known
\* binary signature ("AAAAI" first, or "ftyp" near the start) makes
\* PollVideoResult return finished=true, a nil error and the whole body.
C14_RawSignatureBody ==
    (pollpc = "returned" /\ pollKind = "video" /\ ~pollIn.doErr
        /\ pollIn.status = 200 /\ pollIn.body.shape = "invalid"
        /\ (pollIn.body.magic \/ pollIn.body.ftyp)) =>
        /\ pollOut.finished
        /\ pollOut.err = "nil"
        /\ pollOut.resp.ok
        /\ pollOut.resp.from = "body"

\* C15: for either poll, a 200 body with finished=true, no error, no payload
\* field and no binary signature gives an extraction-failure error; and no
\* poll returns a finished result without an error and with no payload.
C15_NoPayloadIsExtractionFailure ==
    /\ (ParsedOK /\ pollIn.body.finished /\ pollIn.body.error = ""
            /\ ~pollIn.body.payload.present /\ ~pollIn.body.ftyp) =>
            (pollOut.err # "nil" /\ ~pollOut.resp.ok)
    /\ (pollpc = "returned" /\ pollOut.finished /\ pollOut.err = "nil") =>
            ~IsEmpty(pollOut.resp)

(***************************************************************************)
(* The cache fingerprint: generateCacheKey of the API server and the       *)
(* cacheKey of the Cloudflare worker, computed for two requests that carry *)
(* the same image and the same form fields in two orders.                  *)
(***************************************************************************)
MaxParams == 2       \* most form fields a request carries

ParamNames == {"engine", "seed"}
ParamValues == {"1", "2"}
Images == {"img1", "img2"}

\* The form fields of a request in the order they are supplied.
ParamLists ==
    UNION {[1..n -> ParamNames \X ParamValues] : n \in 0..MaxParams}

\* The same fields in every order.
Reorderings(list) ==
    {[i \in 1..Len(list) |-> list[p[i]]] :
        p \in {q \in [1..Len(list) -> 1..Len(list)] :
                \A i, j \in 1..Len(list) : q[i] = q[j] => i = j}}

NamesOf(list) == {list[i][1] : i \in 1..Len(list)}

RECURSIVE ValuesOf(_, _)
ValuesOf(list, name) ==
    IF list = <<>> THEN <<>>
    ELSE IF Head(list)[1] = name
         THEN <<Head(list)[2]>> \o ValuesOf(Tail(list), name)
         ELSE ValuesOf(Tail(list), name)

\* r.ParseMultipartForm: r.Form maps each name to its values in the order
\* they appear.
ParseMultipartForm(list) ==
    [name \in NamesOf(list) |-> ValuesOf(list, name)]

\* parseMultipartFormData of the worker: formValues[name] = value, the last
\* value of a name wins.
parseMultipartFormData(list) ==
    [name \in NamesOf(list) |->
        LET vs == ValuesOf(list, name) IN vs[Len(vs)]]

\* The orders a "for k, v := range form" may visit the keys in: the Go
\* language leaves the iteration order of a map unspecified.
RangeOrders(names) ==
    {o \in [1..Cardinality(names) -> names] :
        \A i, j \in 1..Cardinality(names) : o[i] = o[j] => i = j}

\* The order of the keys as fmt prints a map: sorted.
NameRank(name) == IF name = "engine" THEN 1 ELSE 2

SortedOrder(names) ==
    CHOOSE o \in RangeOrders(names) :
        \A i, j \in 1..Cardinality(names) :
            i < j => NameRank(o[i]) < NameRank(o[j])

RECURSIVE JoinValues(_)
JoinValues(vs) ==
    IF vs = <<>> THEN <<>>
    ELSE IF Len(vs) = 1 THEN vs
    ELSE <<Head(vs), " ">> \o JoinValues(Tail(vs))

\* fmt.Sprintf("%v", formData) for a map[string][]string, as characters:
\* map[k1:[v1 v2] k2:[v3]].
RECURSIVE SprintEntries(_, _, _)
SprintEntries(form, order, i) ==
    IF i > Len(order) THEN <<>>
    ELSE (IF i > 1 THEN <<" ">> ELSE <<>>)
            \o <<order[i], ":", "[">> \o JoinValues(form[order[i]]) \o <<"]">>
            \o SprintEntries(form, order, i + 1)

SprintMap(form) ==
    <<"map[">> \o SprintEntries(form, SortedOrder(DOMAIN form), 1) \o <<"]">>

\* hex.EncodeToString(sha256.Sum256(data)): a digest stands for the data it
\* was computed from, so two digests are equal exactly when the data are.
Sha256Hex(data) == <<"sha256", data>>

generateCacheKey(imageData, formData) ==
    Sha256Hex(<<Sha256Hex(imageData)>> \o SprintMap(formData))

\* formMapToString of the worker: k=v joined by "&" in the order the range
\* statement visits the map.
RECURSIVE formMapToString(_, _, _)
formMapToString(form, order, i) ==
    IF i > Len(order) THEN <<>>
    ELSE (IF i > 1 THEN <<"&">> ELSE <<>>)
            \o <<order[i], "=", form[order[i]]>>
            \o formMapToString(form, order, i + 1)

\* cacheKey := fmt.Sprintf("%x-%s-%s", fileData, engine, formMapToString(formValues))
WorkerCacheKey(fileData, form, order) ==
    <<"hex", fileData, "-", form["engine"], "-">> \o formMapToString(form, order, 1)

NoKey == <<>>

InitKey ==
    /\ keyImpl \in {"server", "worker"}
    /\ \E image \in Images, list \in ParamLists :
        \E other \in Reorderings(list) :
            keyReq = <<[image |-> image, params |-> list],
                       [image |-> image, params |-> other]>>
    /\ keyOut = <<NoKey, NoKey>>
    /\ IdleRL
    /\ IdleChain
    /\ IdleRetry
    /\ IdlePoll
    /\ IdleCache
    /\ IdleAuth
    /\ IdleSubmit
    /\ IdleJob
    /\ IdleShared
    /\ IdleSrv
    /\ IdleCtx
    /\ IdleProxy
    /\ IdleWait

\* handleUpscale / handleImageToVideo of the API server up to
\* "cacheKey := generateCacheKey(imageData, r.Form)".
ServerCacheKey(i) ==
    /\ keyImpl = "server"
    /\ keyOut[i] = NoKey
    /\ keyOut' = [keyOut EXCEPT ![i] =
            generateCacheKey(keyReq[i].image, ParseMultipartForm(keyReq[i].params))]
    /\ UNCHANGED <<keyImpl, keyReq>>
    /\ UNCHANGED notKey

\* handleUpscale of the worker up to "cacheKey := ..."; a request without
\* an engine is answered 400 before that.
WorkerHandleUpscale(i) ==
    /\ keyImpl = "worker"
    /\ keyOut[i] = NoKey
    /\ LET form == parseMultipartFormData(keyReq[i].params)
       IN  /\ "engine" \in DOMAIN form
           /\ \E order \in RangeOrders(DOMAIN form) :
                keyOut' = [keyOut EXCEPT ![i] =
                    WorkerCacheKey(keyReq[i].image, form, order)]
    /\ UNCHANGED <<keyImpl, keyReq>>
    /\ UNCHANGED notKey

NextKey ==
    \/ \E i \in 1..2 : ServerCacheKey(i)
    \/ \E i \in 1..2 : WorkerHandleUpscale(i)

SpecKey == InitKey /\ [][NextKey]_vars

\* The two requests carry the same fields: each name with the same values.
SameParameters ==
    ParseMultipartForm(keyReq[1].params) = ParseMultipartForm(keyReq[2].params)

\* C17: two requests with the same payload and the same parameters, in any
\* order of the parameters, get the same cache key, in the server and in
\* the worker; so does the same request computed twice.
C17_KeyIsFunctionOfRequest ==
    (keyOut[1] # NoKey /\ keyOut[2] # NoKey /\ SameParameters) =>
        keyOut[1] = keyOut[2]

(***************************************************************************)
(* The response cache of the API server: handleUpscale and                 *)
(* handleImageToVideo from "cacheKey := generateCacheKey(...)" on, run by  *)
(* several requests at once against one cache directory.                   *)
(***************************************************************************)
NumRequests == 3     \* submit requests the server handles, in any overlap

Requests == 1..NumRequests

\* What a submit carries: two images under the same form fields.
SubmitInputs ==
    {[image |-> i, params |-> <<<<"seed", "1">>>>] : i \in Images}

\* "cacheKey := generateCacheKey(imageData, r.Form)" for each submit.
KeyTable ==
    [in \in SubmitInputs |->
        generateCacheKey(in.image, ParseMultipartForm(in.params))]

CacheKeyOf(in) == KeyTable[in]

CacheKeys == {KeyTable[in] : in \in SubmitInputs}

\* What s.Client.Upscale / s.Client.ImageToVideo gives: an error, or a
\* result of its own for every dispatch (a job id, an image), named after
\* the request it answers.
ResultNames == <<"r1", "r2", "r3", "r4", "r5", "r6", "r7", "r8">>

UpstreamOutcomes(r) == {ResultNames[r], "error"}

\* A cache file: "none" when it does not exist, "" when it exists with no
\* bytes (os.WriteFile opens it with O_TRUNC before it writes), else the
\* bytes of a response.
NoFile == "none"

NoResponse == [status |-> 0, body |-> "", xcache |-> ""]

Response(status, body, xcache) ==
    [status |-> status, body |-> body, xcache |-> xcache]

\* Requests are interchangeable: they are numbered by what they submit.
ImageRank(image) == IF image = "img1" THEN 1 ELSE 2

InitCache ==
    /\ CachePath \in {"", "cache"}
    /\ cacheFile = [k \in CacheKeys |-> NoFile]
    /\ hpc = [r \in Requests |-> "idle"]
    /\ hin \in {f \in [Requests -> SubmitInputs] :
                    \A r, s \in Requests :
                        r < s => ImageRank(f[r].image) <= ImageRank(f[s].image)}
    /\ afterSuccess = [r \in Requests |-> FALSE]
    /\ responseData = [r \in Requests |-> ""]
    /\ hresp = [r \in Requests |-> NoResponse]
    /\ readFailed = [r \in Requests |-> FALSE]
    /\ writeFailed = [r \in Requests |-> FALSE]
    /\ dispatched = [r \in Requests |-> FALSE]
    /\ firstBody = [k \in CacheKeys |-> NoFile]
    /\ IdleRL
    /\ IdleChain
    /\ IdleRetry
    /\ IdlePoll
    /\ IdleKey
    /\ IdleAuth
    /\ IdleSubmit
    /\ IdleJob
    /\ IdleShared
    /\ IdleSrv
    /\ IdleCtx
    /\ IdleProxy
    /\ IdleWait

\* w.WriteHeader(status); w.Write(body): the handler returns.
Answer(r, resp) ==
    /\ hresp' = [hresp EXCEPT ![r] = resp]
    /\ hpc' = [hpc EXCEPT ![r] = "done"]
    /\ firstBody' =
        IF resp.status = 200 /\ firstBody[CacheKeyOf(hin[r])] = NoFile
        THEN [firstBody EXCEPT ![CacheKeyOf(hin[r])] = resp.body]
        ELSE firstBody

\* The request arrives; the handler parses it, computes the cache key and,
\* with the cache enabled, looks for the file:
\* "if _, err := os.Stat(cachePath); err == nil".
HandleSubmit(r) ==
    /\ hpc[r] = "idle"
    /\ afterSuccess' = [afterSuccess EXCEPT ![r] =
            firstBody[CacheKeyOf(hin[r])] # NoFile]
    /\ hpc' = [hpc EXCEPT ![r] =
            IF CachePath # "" /\ cacheFile[CacheKeyOf(hin[r])] # NoFile
            THEN "read"
            ELSE "dispatch"]
    /\ UNCHANGED <<CachePath, cacheFile, hin, responseData, hresp, readFailed,
                   writeFailed, dispatched, firstBody>>
    /\ UNCHANGED notCache

\* "cacheData, err := os.ReadFile(cachePath); if err == nil": the bytes the
\* file holds at this moment are sent as a hit.
CacheReadHit(r) ==
    /\ hpc[r] = "read"
    /\ Answer(r, Response(200, cacheFile[CacheKeyOf(hin[r])], "HIT"))
    /\ UNCHANGED <<CachePath, cacheFile, hin, afterSuccess, responseData,
                   readFailed, writeFailed, dispatched>>
    /\ UNCHANGED notCache

\* os.ReadFile fails: the handler goes on as on a miss.
CacheReadError(r) ==
    /\ hpc[r] = "read"
    /\ readFailed' = [readFailed EXCEPT ![r] = TRUE]
    /\ hpc' = [hpc EXCEPT ![r] = "dispatch"]
    /\ UNCHANGED <<CachePath, cacheFile, hin, afterSuccess, responseData, hresp,
                   writeFailed, dispatched, firstBody>>
    /\ UNCHANGED notCache

\* A request the handler rejects after the lookup (an invalid style preset,
\* a missing motion, ...): 400, nothing is sent upstream.
SubmitInvalid(r) ==
    /\ hpc[r] = "dispatch"
    /\ Answer(r, Response(400, "invalid", ""))
    /\ UNCHANGED <<CachePath, cacheFile, hin, afterSuccess, responseData,
                   readFailed, writeFailed, dispatched>>
    /\ UNCHANGED notCache

\* "w.WriteHeader(http.StatusOK); w.Write(responseData)"
SubmitRespond(r, data) == Answer(r, Response(200, data, ""))

\* After a failed cache write the error is logged and the response is sent.
AfterWriteErrorFails(r) == Answer(r, Response(500, "cache", ""))
AfterWriteError(r) == SubmitRespond(r, responseData[r])

\* "response, err := s.Client.Upscale(ctx, request)" and json.Marshal of the
\* response: an upstream error is answered 500; with the cache disabled the
\* response is sent at once.
SubmitDispatch(r, out) ==
    /\ hpc[r] = "dispatch"
    /\ dispatched' = [dispatched EXCEPT ![r] = TRUE]
    /\ IF out = "error"
       THEN /\ Answer(r, Response(500, "upstream", ""))
            /\ UNCHANGED responseData
       ELSE /\ responseData' = [responseData EXCEPT ![r] = out]
            /\ IF CachePath # ""
               THEN /\ hpc' = [hpc EXCEPT ![r] = "write"]
                    /\ UNCHANGED <<hresp, firstBody>>
               ELSE SubmitRespond(r, out)
    /\ UNCHANGED <<CachePath, cacheFile, hin, afterSuccess, readFailed,
                   writeFailed>>
    /\ UNCHANGED notCache

\* os.WriteFile(cachePath, responseData, 0o644), first half: the file is
\* opened with O_CREATE|O_TRUNC.
CacheWriteOpen(r) ==
    /\ hpc[r] = "write"
    /\ cacheFile' = [cacheFile EXCEPT ![CacheKeyOf(hin[r])] = ""]
    /\ hpc' = [hpc EXCEPT ![r] = "writing"]
    /\ UNCHANGED <<CachePath, hin, afterSuccess, responseData, hresp, readFailed,
                   writeFailed, dispatched, firstBody>>
    /\ UNCHANGED notCache

\* The file cannot be opened: it stays as it is.
CacheWriteOpenError(r) ==
    /\ hpc[r] = "write"
    /\ writeFailed' = [writeFailed EXCEPT ![r] = TRUE]
    /\ AfterWriteError(r)
    /\ UNCHANGED <<CachePath, cacheFile, hin, afterSuccess, responseData,
                   readFailed, dispatched>>
    /\ UNCHANGED notCache

\* os.WriteFile, second half: the bytes are written, the file is closed and
\* the response is sent.
CacheWriteData(r) ==
    /\ hpc[r] = "writing"
    /\ cacheFile' = [cacheFile EXCEPT ![CacheKeyOf(hin[r])] = responseData[r]]
    /\ SubmitRespond(r, responseData[r])
    /\ UNCHANGED <<CachePath, hin, afterSuccess, responseData, readFailed,
                   writeFailed, dispatched>>
    /\ UNCHANGED notCache

\* The write fails (a full disk): the file stays as it was opened.
CacheWriteDataError(r) ==
    /\ hpc[r] = "writing"
    /\ writeFailed' = [writeFailed EXCEPT ![r] = TRUE]
    /\ AfterWriteError(r)
    /\ UNCHANGED <<CachePath, cacheFile, hin, afterSuccess, responseData,
                   readFailed, dispatched>>
    /\ UNCHANGED notCache

NextCache ==
    \/ \E r \in Requests : HandleSubmit(r)
    \/ \E r \in Requests : CacheReadHit(r)
    \/ \E r \in Requests : CacheReadError(r)
    \/ \E r \in Requests : SubmitInvalid(r)
    \/ \E r \in Requests : \E out \in UpstreamOutcomes(r) : SubmitDispatch(r, out)
    \/ \E r \in Requests : CacheWriteOpen(r)
    \/ \E r \in Requests : CacheWriteOpenError(r)
    \/ \E r \in Requests : CacheWriteData(r)
    \/ \E r \in Requests : CacheWriteDataError(r)

SpecCache == InitCache /\ [][NextCache]_vars

\* No cache read or write has failed so far.
NoCacheFault == \A r \in Requests : ~readFailed[r] /\ ~writeFailed[r]

\* C16: with the cache enabled and working, once a submit has been
\* answered 200, every submit of the same (payload, params) that arrives
\* later is answered from the cache: marked X-Cache: HIT, with the bytes of
\* the first response, and without an upstream dispatch.
C16_LaterSubmitIsCacheHit ==
    (CachePath # "" /\ NoCacheFault) =>
        \A r \in Requests : (hpc[r] = "done" /\ afterSuccess[r]) =>
            /\ hresp[r] = Response(200, firstBody[CacheKeyOf(hin[r])], "HIT")
            /\ ~dispatched[r]

\* What the handler answers when the cache is disabled: 400 for a request
\* it rejects, 500 for an upstream error, else 200 with the response.
DirectAnswer(r) ==
    IF ~dispatched[r] THEN Response(400, "invalid", "")
    ELSE IF responseData[r] = "" THEN Response(500, "upstream", "")
    ELSE Response(200, responseData[r], "")

\* C18: a request whose cache read or cache write failed is answered as it
\* is with the cache disabled: a failed read goes on to the upstream
\* dispatch, a failed write still returns the response.
C18_CacheFailureKeepsOutcome ==
    \A r \in Requests :
        (hpc[r] = "done" /\ (readFailed[r] \/ writeFailed[r] \/ CachePath = "")) =>
            hresp[r] = DirectAnswer(r)

C18_Witness ==
    \E r \in Requests :
        /\ hpc[r] = "done"
        /\ readFailed[r]
        /\ writeFailed[r]
        /\ dispatched[r]
        /\ hresp[r] = Response(200, ResultNames[r], "")

\* The bytes of a complete response held by the cache file of a key.
IsStoredEntry(file) == file # NoFile /\ file # ""

\* C31: a cache entry is written once and is read-only afterwards: under
\* any interleaving of submits with the same fingerprint, once the file of a
\* key holds the bytes of a response no step writes to it again.
C31_EntryWrittenOnce ==
    [][\A k \in CacheKeys :
            IsStoredEntry(cacheFile[k]) => cacheFile'[k] = cacheFile[k]]_vars

\* The bytes of the responses the server has built so far.
BuiltResponses == {responseData[r] : r \in Requests} \ {""}

\* C32: a lookup that runs while another request stores the same key either
\* misses or is answered with the complete bytes of a stored response; no
\* answer marked X-Cache: HIT carries an empty or partly written entry.
C32_HitIsCompleteEntry ==
    \A r \in Requests :
        (hpc[r] = "done" /\ hresp[r].xcache = "HIT") =>
            hresp[r].body \in BuiltResponses

(***************************************************************************)
(* The API server built by api.New: one request on its way through the     *)
(* global middleware (Chain), the router and the per-route WithAuth.       *)
(***************************************************************************)
ClientKey == "secret"
GoodIP == "10.0.0.1"
BadIP == "6.6.6.6"
GoodApp == "app1"
BadApp == "app9"

Methods == {"GET", "POST", "OPTIONS"}

Paths == {"/api/v1/upscale", "/api/v1/image-to-video",
          "/api/v1/image-to-video/result/j1", "/health",
          "/api/docs", "/", "/missing"}

\* The Authorization header, as the pieces HasPrefix and TrimPrefix see.
AuthHeaders ==
    {<<>>, <<"Bearer ", ClientKey>>, <<"Bearer ", "wrong">>, <<ClientKey>>}

\* X-Forwarded-For: the entries between its commas; pad says that blanks
\* surround the address.  <<>> is the header not sent.
ForwardedHeaders ==
    {<<>>,
     <<[ip |-> GoodIP, pad |-> TRUE]>>,
     <<[ip |-> BadIP, pad |-> FALSE]>>,
     <<[ip |-> BadIP, pad |-> FALSE], [ip |-> GoodIP, pad |-> FALSE]>>}

\* r.RemoteAddr: "host:port", or a bare host that SplitHostPort rejects.
RemoteAddrs ==
    {[host |-> GoodIP, port |-> TRUE], [host |-> BadIP, port |-> TRUE],
     [host |-> GoodIP, port |-> FALSE]}

AuthRequests ==
    [method : Methods, path : Paths, auth : AuthHeaders,
     xff : ForwardedHeaders, xreal : {"", GoodIP, BadIP},
     remote : RemoteAddrs, appID : {"", GoodApp, BadApp}]

\* The routes with every registered route wrapped in WithAuth.
RouteOfAllProtected(path) ==
    CASE path = "/api/v1/upscale" -> [handler |-> "handleUpscale", auth |-> TRUE]
      [] path = "/api/v1/image-to-video" ->
            [handler |-> "handleImageToVideo", auth |-> TRUE]
      [] path = "/api/v1/image-to-video/result/j1" ->
            [handler |-> "handleVideoResult", auth |-> TRUE]
      [] path = "/health" -> [handler |-> "handleHealthCheck", auth |-> TRUE]
      [] path = "/api/docs" -> [handler |-> "handleDocs", auth |-> TRUE]
      [] OTHER -> [handler |-> "handleRoot", auth |-> TRUE]

\* The routes api.New registers: the handler of a path and whether the
\* route is wrapped in WithAuth.
RouteOf(path) ==
    CASE path = "/api/v1/upscale" -> [handler |-> "handleUpscale", auth |-> TRUE]
      [] path = "/api/v1/image-to-video" ->
            [handler |-> "handleImageToVideo", auth |-> TRUE]
      [] path = "/api/v1/image-to-video/result/j1" ->
            [handler |-> "handleVideoResult", auth |-> TRUE]
      [] path = "/health" -> [handler |-> "handleHealthCheck", auth |-> FALSE]
      [] path = "/api/docs" -> [handler |-> "handleDocs", auth |-> FALSE]
      [] OTHER -> [handler |-> "handleRoot", auth |-> FALSE]

\* Chain(WithLogger, WithCORS, WithIPFilter, WithAppIDAuth)(mux): the loop
\* wraps from the last middleware to the first, so the first is outermost.
GlobalMiddlewares == <<"WithLogger", "WithCORS", "WithIPFilter", "WithAppIDAuth">>

RECURSIVE ChainOrder(_, _)
ChainOrder(middlewares, i) ==
    IF i < 1 THEN <<>>
    ELSE ChainOrder(middlewares, i - 1) \o <<middlewares[i]>>

\* The stage after a global middleware: the next one, or the router.
NextStage(stage) ==
    LET order == ChainOrder(GlobalMiddlewares, Len(GlobalMiddlewares))
        i == CHOOSE k \in 1..Len(order) : order[k] = stage
    IN  IF i < Len(order) THEN order[i + 1] ELSE "mux"

\* strings.TrimSpace of a header entry.
TrimSpace(entry) == entry.ip

\* net.SplitHostPort(r.RemoteAddr): the host; for an address without a
\* port it fails and getClientIP returns r.RemoteAddr as it is, the host.
PeerAddress(remote) == remote.host

\* getClientIP
getClientIP(r) ==
    IF r.xff # <<>> THEN TrimSpace(r.xff[1])
    ELSE IF r.xreal # "" THEN r.xreal
    ELSE PeerAddress(r.remote)

InitAuth ==
    /\ AllowedIPs \in {{}, {GoodIP}}
    /\ AllowedAppIDs \in {{}, {GoodApp}}
    /\ areq \in AuthRequests
    /\ apc = "WithLogger"
    /\ astatus = 0
    /\ stagesRun = <<>>
    /\ handlerRan = "none"
    /\ acached = FALSE
    /\ IdleRL
    /\ IdleChain
    /\ IdleRetry
    /\ IdlePoll
    /\ IdleKey
    /\ IdleCache
    /\ IdleSubmit
    /\ IdleJob
    /\ IdleShared
    /\ IdleSrv
    /\ IdleCtx
    /\ IdleProxy
    /\ IdleWait

\* A middleware calls next.ServeHTTP.
Forward(stage, next) ==
    /\ stagesRun' = Append(stagesRun, stage)
    /\ apc' = next
    /\ UNCHANGED <<astatus, handlerRan, acached>>

\* A middleware or handler writes the response and returns.
Reply(stage, status) ==
    /\ stagesRun' = Append(stagesRun, stage)
    /\ apc' = "done"
    /\ astatus' = status
    /\ UNCHANGED <<handlerRan, acached>>

WithLogger ==
    /\ apc = "WithLogger"
    /\ Forward("WithLogger", NextStage("WithLogger"))
    /\ UNCHANGED <<AllowedIPs, AllowedAppIDs, areq>>
    /\ UNCHANGED notAuth

\* WithCORS(nil): the headers are set; a preflight request is answered here.
WithCORS ==
    /\ apc = "WithCORS"
    /\ IF areq.method = "OPTIONS"
       THEN Reply("WithCORS", 200)
       ELSE Forward("WithCORS", NextStage("WithCORS"))
    /\ UNCHANGED <<AllowedIPs, AllowedAppIDs, areq>>
    /\ UNCHANGED notAuth

IPAllowedAlways(r) == TRUE
IPAllowed(r) == AllowedIPs = {} \/ getClientIP(r) \in AllowedIPs

WithIPFilter ==
    /\ apc = "WithIPFilter"
    /\ IF IPAllowed(areq)
       THEN Forward("WithIPFilter", NextStage("WithIPFilter"))
       ELSE Reply("WithIPFilter", 403)
    /\ UNCHANGED <<AllowedIPs, AllowedAppIDs, areq>>
    /\ UNCHANGED notAuth

AppIDAllowed(r) ==
    AllowedAppIDs = {} \/ (r.appID # "" /\ r.appID \in AllowedAppIDs)

WithAppIDAuth ==
    /\ apc = "WithAppIDAuth"
    /\ IF AppIDAllowed(areq)
       THEN Forward("WithAppIDAuth", NextStage("WithAppIDAuth"))
       ELSE Reply("WithAppIDAuth", 403)
    /\ UNCHANGED <<AllowedIPs, AllowedAppIDs, areq>>
    /\ UNCHANGED notAuth

\* mux.ServeHTTP: the request goes to the handler registered for its path,
\* through WithAuth where the route has it.
Mux ==
    /\ apc = "mux"
    /\ Forward("mux", IF RouteOf(areq.path).auth THEN "WithAuth" ELSE "handler")
    /\ UNCHANGED <<AllowedIPs, AllowedAppIDs, areq>>
    /\ UNCHANGED notAuth

\* WithAuth(clientAPIKey, nil): no path is excluded.
TokenNotCompared(r) == r.auth # <<>> /\ Head(r.auth) = "Bearer "
TokenOK(r) ==
    /\ r.auth # <<>>
    /\ Head(r.auth) = "Bearer "
    /\ Tail(r.auth) = <<ClientKey>>

WithAuth ==
    /\ apc = "WithAuth"
    /\ IF TokenOK(areq)
       THEN Forward("WithAuth", "handler")
       ELSE Reply("WithAuth", 401)
    /\ UNCHANGED <<AllowedIPs, AllowedAppIDs, areq>>
    /\ UNCHANGED notAuth

\* The handlers that look the request up in the response cache.
SubmitHandlers == {"handleUpscale", "handleImageToVideo"}

\* "if s.CachePath != "" { if _, err := os.Stat(cachePath); err == nil {":
\* whether a submit handler finds a cache file for the request depends on
\* the cache directory; a hit is sent with status 200.
CacheLookup(route, r, status) ==
    IF route.handler \in SubmitHandlers /\ r.method = "POST" /\ status = 200
    THEN BOOLEAN
    ELSE {FALSE}

\* The statuses a handler may answer with for a request it accepts.
HandlerStatuses(route, r) ==
    CASE route.handler = "handleHealthCheck" ->
            IF r.method = "GET" THEN {200} ELSE {405}
      [] route.handler = "handleDocs" ->
            IF r.method = "GET" THEN {200} ELSE {405}
      [] route.handler = "handleRoot" ->
            IF r.method # "GET" THEN {405}
            ELSE IF r.path = "/" THEN {200} ELSE {404}
      [] route.handler \in SubmitHandlers ->
            IF r.method = "POST" THEN {200, 400, 500} ELSE {405}
      [] OTHER ->
            IF r.method = "GET" THEN {200, 202, 400, 500} ELSE {405}

Handler ==
    /\ apc = "handler"
    /\ \E status \in HandlerStatuses(RouteOf(areq.path), areq) :
        /\ astatus' = status
        /\ acached' \in CacheLookup(RouteOf(areq.path), areq, status)
        /\ handlerRan' = RouteOf(areq.path).handler
        /\ stagesRun' = Append(stagesRun, "handler")
        /\ apc' = "done"
    /\ UNCHANGED <<AllowedIPs, AllowedAppIDs, areq>>
    /\ UNCHANGED notAuth

NextAuth ==
    \/ WithLogger
    \/ WithCORS
    \/ WithIPFilter
    \/ WithAppIDAuth
    \/ Mux
    \/ WithAuth
    \/ Handler

SpecAuth == InitAuth /\ [][NextAuth]_vars

\* The stages of the claim, as predicates of the request.
Protected(r) == RouteOf(r.path).auth

\* C19: on a protected endpoint the stages are evaluated in the order
\* bearer token, IP allowlist, app-id allowlist; the first that fails
\* alone decides the answer (401 for the token, 403 for the others) and
\* neither a later stage nor the handler runs.
C19_AuthStagesInOrder ==
    (apc = "done" /\ Protected(areq) /\ areq.method # "OPTIONS") =>
        IF ~TokenOK(areq)
        THEN /\ astatus = 401
             /\ handlerRan = "none"
             /\ \A i \in 1..Len(stagesRun) :
                    stagesRun[i] \notin {"WithIPFilter", "WithAppIDAuth"}
        ELSE IF ~IPAllowed(areq)
        THEN /\ astatus = 403
             /\ handlerRan = "none"
             /\ \A i \in 1..Len(stagesRun) : stagesRun[i] # "WithAppIDAuth"
        ELSE IF ~AppIDAllowed(areq)
        THEN astatus = 403 /\ handlerRan = "none"
        ELSE handlerRan # "none"

\* The client address the contract names: the first X-Forwarded-For entry,
\* else X-Real-IP, else the peer address.
ClaimClientIP(r) ==
    IF r.xff # <<>> THEN r.xff[1].ip
    ELSE IF r.xreal # "" THEN r.xreal
    ELSE r.remote.host

\* The IP stage answered the request itself.
RejectedByIPFilter ==
    apc = "done" /\ stagesRun[Len(stagesRun)] = "WithIPFilter"

C21_NonHealthRoutesNeedToken ==
    (apc = "done" /\ areq.path # "/health" /\ ~TokenOK(areq)) =>
        handlerRan = "none"

\* C22 as stated: GET /health without a bearer token and without X-App-ID
\* is answered 200 from any client address under any configuration.
C22_HealthIsOpen ==
    (apc = "done" /\ areq.path = "/health" /\ areq.method = "GET"
        /\ areq.auth = <<>> /\ areq.appID = "") =>
        astatus = 200

\* C22 amended: GET /health needs no bearer token; it is answered 200
\* whenever the request passes the IP allowlist and the app-id allowlist
\* (each admits every request when it is not configured).
C22_HealthNeedsNoToken ==
    (apc = "done" /\ areq.path = "/health" /\ areq.method = "GET"
        /\ (AllowedIPs = {} \/ ClaimClientIP(areq) \in AllowedIPs)
        /\ (AllowedAppIDs = {} \/ areq.appID \in AllowedAppIDs)) =>
        (astatus = 200 /\ handlerRan = "handleHealthCheck")

C22_Witness ==
    /\ apc = "done"
    /\ areq.path = "/health"
    /\ areq.method = "GET"
    /\ areq.auth = <<>>
    /\ areq.appID = ""
    /\ AllowedIPs = {GoodIP}
    /\ AllowedAppIDs = {}
    /\ areq.xff = <<>>
    /\ areq.xreal = ""
    /\ areq.remote = [host |-> GoodIP, port |-> TRUE]
    /\ astatus = 200
    /\ handlerRan = "handleHealthCheck"

\* The stages of the server, as the claim names them.
StagesPassed ==
    {stagesRun[i] : i \in 1..Len(stagesRun)}

\* C38: no cached response is served to an unauthorized request: a request
\* to /api/v1/upscale or /api/v1/image-to-video that fails the bearer-token,
\* the IP-allowlist or the app-id stage gets no stored bytes and no
\* X-Cache: HIT, and a submit handler, the only place of the cache lookup,
\* runs after the three stages.
C38_NoCacheHitUnauthorized ==
    /\ acached =>
            /\ areq.auth = <<"Bearer ", ClientKey>>
            /\ AllowedIPs # {} => ClaimClientIP(areq) \in AllowedIPs
            /\ AllowedAppIDs # {} => areq.appID \in AllowedAppIDs
    /\ handlerRan \in SubmitHandlers =>
            {"WithIPFilter", "WithAppIDAuth", "WithAuth"} \subseteq StagesPassed

C38_Witness ==
    /\ apc = "done"
    /\ acached
    /\ astatus = 200
    /\ areq.path = "/api/v1/image-to-video"
    /\ AllowedIPs = {GoodIP}
    /\ AllowedAppIDs = {GoodApp}
    /\ areq.xff = <<[ip |-> GoodIP, pad |-> TRUE]>>

(***************************************************************************)
(* Client.ImageToVideo and Client.Upscale: one submit, validated and then  *)
(* dispatched to an upstream that may answer in any way.  Durations and    *)
(* creativity levels are counted in hundredths.                            *)
(***************************************************************************)
MinDuration == 50
MaxVideoDuration == 800
MinFPS == 1
MaxFPS == 60
ConservativeMinCreativity == 20
CreativeMinCreativity == 10
MaxCreativity == 50

UpscaleTypes == {"fast", "conservative", "creative"}

DurationValues ==
    {0 - 100, 0, MinDuration - 1, MinDuration, MaxVideoDuration, MaxVideoDuration + 1}
FPSValues == {0 - 1, 0, MinFPS, MaxFPS, MaxFPS + 1}
CreativityValues ==
    {0 - 10, 0, CreativeMinCreativity - 1, CreativeMinCreativity,
     ConservativeMinCreativity - 1, ConservativeMinCreativity,
     MaxCreativity, MaxCreativity + 1}

ImageToVideoRequests ==
    [op : {"ImageToVideo"}, image : {<<>>, <<1>>}, filename : {"", "a.png"},
     duration : DurationValues, fps : FPSValues,
     type : {""}, prompt : {""}, creativity : {0}]

UpscaleRequests ==
    [op : {"Upscale"}, image : {<<>>, <<1>>}, filename : {"a.png"},
     duration : {0}, fps : {0},
     type : UpscaleTypes \cup {"bogus"}, prompt : {"", "p"},
     creativity : CreativityValues]

\* What c.HTTPClient.Do gives a submit: an error, or a status with a body;
\* errBody is the body of a non-200 answer; json, id are the body of a 200
\* answer read as {"id": ...}; data, mime the body read as the payload.
UpstreamAnswer(doErr, status, errBody, json, id, data, mime) ==
    [doErr |-> doErr, status |-> status, errBody |-> errBody, json |-> json,
     id |-> id, data |-> data, mime |-> mime]

UpstreamAnswers ==
    {UpstreamAnswer(TRUE, 0, NoErrorBody, FALSE, "", <<>>, "")}
        \cup {UpstreamAnswer(FALSE, s, e, FALSE, "", <<>>, "") :
                s \in {400, 403, 500}, e \in ErrorResponses}
        \cup {UpstreamAnswer(FALSE, 200, NoErrorBody, TRUE, "j1", <<123>>, "application/json"),
              UpstreamAnswer(FALSE, 200, NoErrorBody, FALSE, "", <<7>>, "image/png"),
              UpstreamAnswer(FALSE, 200, NoErrorBody, FALSE, "", <<>>, "")}

SubmitError(err) == [ok |-> FALSE, err |-> err, id |-> "", data |-> <<>>, mime |-> ""]
SubmitID(id) == [ok |-> TRUE, err |-> "nil", id |-> id, data |-> <<>>, mime |-> ""]
SubmitData(data, mime) == [ok |-> TRUE, err |-> "nil", id |-> "", data |-> data, mime |-> mime]

\* if request.Duration > 0 { if request.Duration < 0.5 || request.Duration > 8.0
DurationRejectedAboveOnly(d) == d > 0 /\ d > MaxVideoDuration
DurationRejected(d) == d > 0 /\ (d < MinDuration \/ d > MaxVideoDuration)

\* if request.FPS > 0 { if request.FPS < 1 || request.FPS > 60
FPSRejected(f) == f > 0 /\ (f < MinFPS \/ f > MaxFPS)

\* The checks of ImageToVideo that precede the dispatch, in their order:
\* the error returned, "nil" when the request is dispatched.
ImageToVideoValidation(request) ==
    IF Len(request.image) = 0 THEN "image is required"
    ELSE IF request.filename = "" THEN "filename is required"
    ELSE IF DurationRejected(request.duration) THEN "duration must be between 0.5 and 8.0 seconds"
    ELSE IF FPSRejected(request.fps) THEN "FPS must be between 1 and 60"
    ELSE "nil"

\* if request.Creativity > 0 { ... }, inside if request.Type != UpscaleTypeFast
CreativityRejected(type, c) ==
    /\ c > 0
    /\ \/ type = "conservative" /\ (c < ConservativeMinCreativity \/ c > MaxCreativity)
       \/ type = "creative" /\ (c < CreativeMinCreativity \/ c > MaxCreativity)

\* The checks of Upscale that precede the dispatch.
UpscaleValidation(request) ==
    IF request.type \notin UpscaleTypes THEN "invalid upscale type"
    ELSE IF request.type = "fast" THEN "nil"
    ELSE IF request.prompt = "" THEN "prompt is required"
    ELSE IF CreativityRejected(request.type, request.creativity)
    THEN "creativity must be in range"
    ELSE "nil"

\* The submit returns a job id (image-to-video, creative upscale) or the
\* payload itself (fast, conservative).
IsAsync(request) == request.op = "ImageToVideo" \/ request.type = "creative"

\* What a submit makes of the upstream answer.
SubmitResultOf(request, up) ==
    IF up.doErr THEN SubmitError("send")
    ELSE IF up.status # 200 THEN SubmitError(ErrorKindOf(up.status, up.errBody))
    ELSE IF IsAsync(request)
    THEN IF up.json THEN SubmitID(up.id) ELSE SubmitError("decode")
    ELSE IF Len(up.data) = 0 THEN SubmitError("no data received")
    ELSE SubmitData(up.data, up.mime)

InitSubmit ==
    /\ subReq \in ImageToVideoRequests \cup UpscaleRequests
    /\ subUp = NoUpstreamAnswer
    /\ subpc = "ready"
    /\ subOut = NoSubmitResult
    /\ subDispatches = 0
    /\ IdleRL
    /\ IdleChain
    /\ IdleRetry
    /\ IdlePoll
    /\ IdleKey
    /\ IdleCache
    /\ IdleAuth
    /\ IdleJob
    /\ IdleShared
    /\ IdleSrv
    /\ IdleCtx
    /\ IdleProxy
    /\ IdleWait

\* A submit up to its dispatch: it returns the validation error, or goes on
\* to send the request.
Validate(err) ==
    /\ IF err # "nil"
       THEN subOut' = SubmitError(err) /\ subpc' = "returned"
       ELSE subOut' = subOut /\ subpc' = "sending"
    /\ UNCHANGED <<subReq, subUp, subDispatches>>

ImageToVideo ==
    /\ subpc = "ready"
    /\ subReq.op = "ImageToVideo"
    /\ Validate(ImageToVideoValidation(subReq))
    /\ UNCHANGED notSubmit

Upscale ==
    /\ subpc = "ready"
    /\ subReq.op = "Upscale"
    /\ Validate(UpscaleValidation(subReq))
    /\ UNCHANGED notSubmit

\* c.HTTPClient.Do(httpReq) and the handling of its answer.
SubmitSend ==
    /\ subpc = "sending"
    /\ \E up \in UpstreamAnswers :
        /\ subUp' = up
        /\ subOut' = SubmitResultOf(subReq, up)
    /\ subDispatches' = subDispatches + 1
    /\ subpc' = "returned"
    /\ UNCHANGED subReq
    /\ UNCHANGED notSubmit

NextSubmit ==
    \/ ImageToVideo
    \/ Upscale
    \/ SubmitSend

SpecSubmit == InitSubmit /\ [][NextSubmit]_vars

ValidationErrors ==
    {"image is required", "filename is required",
     "duration must be between 0.5 and 8.0 seconds", "FPS must be between 1 and 60",
     "invalid upscale type", "prompt is required", "creativity must be in range"}

\* The kind's range of the claim.
OutsideRange(x, lo, hi) == x < lo \/ x > hi

\* The inputs C23 names, with every value outside its range counted.
InvalidAsStated(r) ==
    IF r.op = "ImageToVideo"
    THEN \/ OutsideRange(r.duration, MinDuration, MaxVideoDuration)
         \/ OutsideRange(r.fps, MinFPS, MaxFPS)
         \/ Len(r.image) = 0
         \/ r.filename = ""
    ELSE \/ r.type \notin UpscaleTypes
         \/ r.type \in {"conservative", "creative"} /\ r.prompt = ""
         \/ r.type = "conservative"
                /\ OutsideRange(r.creativity, ConservativeMinCreativity, MaxCreativity)
         \/ r.type = "creative"
                /\ OutsideRange(r.creativity, CreativeMinCreativity, MaxCreativity)

\* The same with a duration, fps or creativity counted only when it is set
\* (greater than zero).
InvalidWhenSet(r) ==
    IF r.op = "ImageToVideo"
    THEN \/ r.duration > 0 /\ OutsideRange(r.duration, MinDuration, MaxVideoDuration)
         \/ r.fps > 0 /\ OutsideRange(r.fps, MinFPS, MaxFPS)
         \/ Len(r.image) = 0
         \/ r.filename = ""
    ELSE \/ r.type \notin UpscaleTypes
         \/ r.type \in {"conservative", "creative"} /\ r.prompt = ""
         \/ r.type = "conservative" /\ r.creativity > 0
                /\ OutsideRange(r.creativity, ConservativeMinCreativity, MaxCreativity)
         \/ r.type = "creative" /\ r.creativity > 0
                /\ OutsideRange(r.creativity, CreativeMinCreativity, MaxCreativity)

\* C23 as stated: a submit of an invalid request returns a validation error
\* and dispatches nothing.
C23_ValidatedBeforeDispatch ==
    /\ (subpc # "ready" /\ InvalidAsStated(subReq)) =>
            (subpc = "returned" /\ subOut.err \in ValidationErrors)
    /\ InvalidAsStated(subReq) => subDispatches = 0

\* C23 amended: the same, where a duration, fps or creativity that is zero
\* or negative counts as not set and is not validated.
C23_SetValuesValidatedBeforeDispatch ==
    /\ (subpc # "ready" /\ InvalidWhenSet(subReq)) =>
            (subpc = "returned" /\ subOut.err \in ValidationErrors)
    /\ InvalidWhenSet(subReq) => subDispatches = 0

C23_Witness ==
    /\ subpc = "returned"
    /\ subReq.op = "ImageToVideo"
    /\ subReq.image = <<1>>
    /\ subReq.filename = "a.png"
    /\ subReq.duration = MinDuration - 1
    /\ subReq.fps = MaxFPS
    /\ subOut = SubmitError("duration must be between 0.5 and 8.0 seconds")
    /\ subDispatches = 0

\* The answer of the claim: a 403 whose body carries a known marker.
HasMarker(e) ==
    /\ e.json
    /\ \/ e.name \in {"content_policy_violation", "safety_violation"}
       \/ e.message = SafetyMessage

SubmitForbidden ==
    subpc = "returned" /\ subDispatches = 1 /\ ~subUp.doErr /\ subUp.status = 403

PollForbidden ==
    pollpc = "returned" /\ ~pollIn.doErr /\ pollIn.status = 403

\* One operation of the client against the upstream: a submit or a poll.
SpecClient == (InitSubmit \/ InitPoll) /\ [][NextSubmit \/ NextPoll]_vars

MaxPolls == 3        \* polls of the job

StylePresets == {"anime", "cinematic"}

\* The creativity field of the form: not sent, text that is no number, or
\* a number (in hundredths).
CreativityFields ==
    {[kind |-> "empty", value |-> 0], [kind |-> "junk", value |-> 0]}
        \cup {[kind |-> "number", value |-> v] : v \in CreativityValues}

UpscaleForms ==
    {f \in [method : {"GET", "POST"}, parsed : BOOLEAN,
            type : UpscaleTypes \cup {"", "bogus"}, prompt : {"", "p"},
            hasImage : BOOLEAN, creativity : CreativityFields,
            stylePreset : {"", "anime", "bogus"}] :
        f.method = "GET" => f.parsed}

\* strconv.ParseFloat with its error dropped: 0 for text that is no number.
ParseCreativity(f) ==
    IF f.creativity.kind = "number" THEN f.creativity.value ELSE 0

\* upscaleType := r.FormValue("type"), "fast" when empty
FormType(f) == IF f.type = "" THEN "fast" ELSE f.type

\* The checks of handleUpscale before it builds the request: the message
\* and status passed to sendError, status 0 when the form is accepted.
FormCheck(f) ==
    IF f.method # "POST" THEN [status |-> 405, error |-> "Method not allowed"]
    ELSE IF ~f.parsed THEN [status |-> 400, error |-> "Failed to parse form"]
    ELSE IF FormType(f) \notin UpscaleTypes
    THEN [status |-> 400, error |-> "Invalid upscale type"]
    ELSE IF FormType(f) \in {"conservative", "creative"} /\ f.prompt = ""
    THEN [status |-> 400, error |-> "Prompt is required"]
    ELSE IF ~f.hasImage THEN [status |-> 400, error |-> "Failed to get image file"]
    ELSE IF f.stylePreset # "" /\ f.stylePreset \notin StylePresets
    THEN [status |-> 400, error |-> "Invalid style preset"]
    ELSE [status |-> 0, error |-> ""]

\* request := client.UpscaleRequest{...}
RequestOf(f) ==
    [op |-> "Upscale", image |-> <<1>>, filename |-> "a.png", duration |-> 0,
     fps |-> 0, type |-> FormType(f), prompt |-> f.prompt,
     creativity |-> ParseCreativity(f)]

\* sendError
SendError(status, error) ==
    [status |-> status, success |-> FALSE, error |-> error, id |-> "",
     pending |-> FALSE, image |-> <<>>]

\* A Response with Success true written with the status given; id, pending
\* and image are omitted from the JSON when empty or false.
SendData(status, id, pending, image) ==
    [status |-> status, success |-> TRUE, error |-> "", id |-> id,
     pending |-> pending, image |-> image]

\* encodeStd of base64.StdEncoding; of its 64 characters the model tells
\* apart the four of B64Value.
B64Char(v) ==
    CASE v = 0 -> "A"
      [] v = 16 -> "Q"
      [] v = 32 -> "g"
      [] v = 48 -> "w"
      [] OTHER -> "?"

\* base64.StdEncoding.EncodeToString: three bytes give four characters, and
\* a last group of one or two bytes is padded with "=".
RECURSIVE EncodeUnpaddedFrom(_, _)
EncodeUnpaddedFrom(b, i) ==
    IF i > Len(b) THEN <<>>
    ELSE LET n == Len(b) - i + 1
             b0 == b[i]
             b1 == IF n >= 2 THEN b[i + 1] ELSE 0
             b2 == IF n >= 3 THEN b[i + 2] ELSE 0
             c0 == B64Char(b0 \div 4)
             c1 == B64Char((b0 % 4) * 16 + (b1 \div 16))
             c2 == B64Char((b1 % 16) * 4 + (b2 \div 64))
             c3 == B64Char(b2 % 64)
         IN  IF n >= 3 THEN <<c0, c1, c2, c3>> \o EncodeUnpaddedFrom(b, i + 3)
             ELSE IF n = 2 THEN <<c0, c1, c2>>
             ELSE <<c0, c1>>

RECURSIVE EncodeFrom(_, _)
EncodeFrom(b, i) ==
    IF i > Len(b) THEN <<>>
    ELSE LET n == Len(b) - i + 1
             b0 == b[i]
             b1 == IF n >= 2 THEN b[i + 1] ELSE 0
             b2 == IF n >= 3 THEN b[i + 2] ELSE 0
             c0 == B64Char(b0 \div 4)
             c1 == B64Char((b0 % 4) * 16 + (b1 \div 16))
             c2 == B64Char((b1 % 16) * 4 + (b2 \div 64))
             c3 == B64Char(b2 % 64)
         IN  IF n >= 3 THEN <<c0, c1, c2, c3>> \o EncodeFrom(b, i + 3)
             ELSE IF n = 2 THEN <<c0, c1, c2, "=">>
             ELSE <<c0, c1, "=", "=">>

EncodeToStringUnpadded(b) == EncodeUnpaddedFrom(b, 1)
EncodeToString(b) == EncodeFrom(b, 1)

\* "data:" + result.MimeType + ";base64," + encodeBase64(data).  Data that
\* a poll took literally from a field or from the body is encoded as a
\* text of its own.
DataURL(resp) ==
    <<DataTag, Comma>> \o
        (IF resp.from = "base64" THEN EncodeToString(resp.bytes)
         ELSE <<"b64 of">> \o resp.text)

\* What the upstream answers a poll of the job.  While the job is pending:
\* 202, or a result document with finished false; once it is finished: the
\* result document with the payload; at any time it may fail.
PendingBody == PollBody("schema", FALSE, "", NoField, "", FALSE, FALSE, NoErrorBody)

FinishedBody(payload) ==
    PollBody("schema", TRUE, "", [present |-> TRUE, s |-> payload], "image/png",
             FALSE, FALSE, NoErrorBody)

FailureBody == PollBody("invalid", FALSE, "", NoField, "", FALSE, FALSE, Unparseable)

JobPollAnswers(job) ==
    {[doErr |-> FALSE, status |-> 500, body |-> FailureBody]}
        \cup (IF job.state = "pending"
              THEN {[doErr |-> FALSE, status |-> 202, body |-> PendingBody],
                    [doErr |-> FALSE, status |-> 200, body |-> PendingBody]}
              ELSE {[doErr |-> FALSE, status |-> 200, body |-> FinishedBody(job.payload)]})

\* The payload of a finished job: base64 of one, two, three and four
\* bytes, of none, text that is no base64, and a data URL.
JobPayloads ==
    {<<"Q", "Q", "=", "=">>, <<"Q", "Q", "Q", "=">>, <<"Q", "Q", "Q", "Q">>,
     <<"Q", "Q", "Q", "Q", "Q", "Q", "=", "=">>, <<>>, <<"Q", "-">>,
     <<DataTag, Comma, "Q", "Q", "Q", "Q">>}

InitJob ==
    /\ \/ jform \in UpscaleForms /\ upJob = NoJob /\ jpc = "ready"
       \/ jform = NoForm /\ jpc = "polling"
            /\ upJob = [kind |-> "video", state |-> "pending", payload |-> <<>>]
    /\ jsub = NoUpstreamAnswer
    /\ jpollIn = NoPollInput
    /\ jans = NoAnswer
    /\ jfrom = "none"
    /\ janswers = <<>>
    /\ jdispatches = 0
    /\ jCachePath \in {"", "cache"}
    /\ jstored = NoAnswer
    /\ IdleRL
    /\ IdleChain
    /\ IdleRetry
    /\ IdlePoll
    /\ IdleKey
    /\ IdleCache
    /\ IdleAuth
    /\ IdleSubmit
    /\ IdleShared
    /\ IdleSrv
    /\ IdleCtx
    /\ IdleProxy
    /\ IdleWait

\* The answer of handleUpscale to a submit that the client returned.
UpscaleAnswer(f, out) ==
    IF ~out.ok THEN SendError(500, "Error from Stability AI")
    ELSE IF FormType(f) = "creative"
    THEN SendData(200, out.id, TRUE, <<>>)
    ELSE SendData(200, "", FALSE,
                  DataURL([from |-> "base64", bytes |-> out.data, text |-> <<>>]))

\* "if s.CachePath != "" { os.WriteFile(cachePath, responseData, 0o644) }":
\* the marshalled response is stored, unless the write fails.
CacheStore(ans) ==
    IF jCachePath # "" /\ ans.success
    THEN jstored' \in {ans, jstored}
    ELSE jstored' = jstored

\* handleUpscale: the form is checked, the request built and handed to
\* Client.Upscale, which validates it and then dispatches it; the response
\* is stored in the cache and sent.  The one submit of the job finds no
\* cache file.
handleUpscale ==
    /\ jpc = "ready"
    /\ jfrom' = "handleUpscale"
    /\ LET check == FormCheck(jform)
           verr == UpscaleValidation(RequestOf(jform))
       IN  IF check.status # 0
           THEN /\ jans' = SendError(check.status, check.error)
                /\ jpc' = "done"
                /\ UNCHANGED <<jsub, upJob, jdispatches, jstored>>
           ELSE IF verr # "nil"
           THEN /\ jans' = UpscaleAnswer(jform, SubmitError(verr))
                /\ jpc' = "done"
                /\ UNCHANGED <<jsub, upJob, jdispatches, jstored>>
           ELSE \E up \in UpstreamAnswers :
                    LET out == SubmitResultOf(RequestOf(jform), up)
                        created == /\ ~up.doErr
                                   /\ up.status = 200
                                   /\ up.json
                                   /\ FormType(jform) = "creative"
                    IN  /\ jsub' = up
                        /\ jdispatches' = jdispatches + 1
                        /\ jans' = UpscaleAnswer(jform, out)
                        /\ CacheStore(UpscaleAnswer(jform, out))
                        /\ upJob' = IF created
                                    THEN [kind |-> "creative", state |-> "pending",
                                          payload |-> <<>>]
                                    ELSE upJob
                        /\ jpc' = IF created THEN "polling" ELSE "done"
    /\ UNCHANGED <<jform, jpollIn, janswers, jCachePath>>
    /\ UNCHANGED notJob

\* The upstream finishes the job.
UpstreamFinish ==
    /\ jpc = "polling"
    /\ upJob.state = "pending"
    /\ \E p \in JobPayloads :
        upJob' = [upJob EXCEPT !.state = "finished", !.payload = p]
    /\ UNCHANGED <<jform, jpc, jsub, jpollIn, jans, jfrom, janswers, jdispatches,
                   jCachePath, jstored>>
    /\ UNCHANGED notJob

\* The answer of a poll handler to what the client's poll returned.
PollAnswer(id, r) ==
    IF r.err # "nil" THEN SendError(500, "Error polling for result")
    ELSE SendData(200, id, ~r.finished, IF r.finished THEN DataURL(r.resp) ELSE <<>>)

AnswerKind(ans) ==
    IF ~ans.success THEN "error" ELSE IF ans.pending THEN "pending" ELSE "finished"

\* A GET of the job's result path: the handler polls the upstream once.
PollHandler(name, resultOf(_)) ==
    /\ Len(janswers) < MaxPolls
    /\ \E in \in JobPollAnswers(upJob) :
        /\ jpollIn' = in
        /\ jans' = PollAnswer("j1", resultOf(in))
        /\ janswers' = Append(janswers, AnswerKind(PollAnswer("j1", resultOf(in))))
    /\ jfrom' = name
    /\ UNCHANGED <<jform, upJob, jpc, jsub, jdispatches, jCachePath, jstored>>

handleUpscaleResult ==
    /\ jpc = "polling"
    /\ upJob.kind = "creative"
    /\ PollHandler("handleUpscaleResult", PollCreativeResultOf)
    /\ UNCHANGED notJob

handleVideoResult ==
    /\ jpc = "polling"
    /\ upJob.kind = "video"
    /\ PollHandler("handleVideoResult", PollVideoResultOf)
    /\ UNCHANGED notJob

NextJob ==
    \/ handleUpscale
    \/ UpstreamFinish
    \/ handleUpscaleResult
    \/ handleVideoResult

SpecJob == InitJob /\ [][NextJob]_vars

\* The latest answer came from a poll handler.
PollAnswered == jfrom \in {"handleUpscaleResult", "handleVideoResult"}

\* The upstream told the latest poll that the job is not finished.
ReportedUnfinished ==
    /\ ~jpollIn.doErr
    /\ \/ jpollIn.status = 202
       \/ jpollIn.status = 200 /\ jpollIn.body = PendingBody

\* C25: a poll request whose job is not yet finished is answered with
\* status 202 and pending:true.
C25_PendingPollIs202 ==
    (PollAnswered /\ upJob.state = "pending" /\ ReportedUnfinished) =>
        (jans.status = 202 /\ jans.pending)

\* The request is malformed or out of range: the handler's own checks or
\* the client's validation reject it.
RejectedAsInvalid(f) ==
    /\ f.method = "POST"
    /\ \/ FormCheck(f).status # 0
       \/ UpscaleValidation(RequestOf(f)) \in ValidationErrors

\* C26: a request rejected because of malformed or out-of-range input is
\* answered 400 with {success:false, error}, never 500.
C26_ValidationIs400 ==
    (jfrom = "handleUpscale" /\ RejectedAsInvalid(jform)) =>
        (jans.status = 400 /\ ~jans.success /\ jans.error # "")

\* The bytes of the image a server answer carries.
AnswerImage(ans) == DecodeString(StripDataPrefix(ans.image))

\* The upstream told the latest poll that the job is finished, with a
\* valid base64 image.
ReportedFinishedValid ==
    /\ ~jpollIn.doErr
    /\ jpollIn.status = 200
    /\ jpollIn.body.finished
    /\ ~DecodeString(jpollIn.body.payload.s).err

\* C27: a successful creative submit returns {id, pending:true}; a poll
\* while the upstream reports finished:false returns pending:true without
\* an image; a poll after the upstream reports finished:true with a valid
\* base64 image returns pending:false and an image whose bytes are those of
\* the upstream payload; no answer says pending after one said finished.
C27_CreativeLifecycle ==
    /\ (jfrom = "handleUpscale" /\ FormType(jform) = "creative" /\ jans.success) =>
            (jans.id = jsub.id /\ jans.pending /\ jans.image = <<>>)
    /\ (jfrom = "handleUpscaleResult" /\ ~jpollIn.doErr /\ jpollIn.status = 200
            /\ jpollIn.body = PendingBody) =>
            (jans.success /\ jans.pending /\ jans.image = <<>>)
    /\ (jfrom = "handleUpscaleResult" /\ ReportedFinishedValid) =>
            /\ jans.success
            /\ ~jans.pending
            /\ ~AnswerImage(jans).err
            /\ AnswerImage(jans).bytes = DecodeString(jpollIn.body.payload.s).bytes
    /\ upJob.kind = "creative" =>
            \A i, k \in 1..Len(janswers) :
                (i < k /\ janswers[i] = "finished") => janswers[k] # "pending"

C27_Witness ==
    /\ jfrom = "handleUpscaleResult"
    /\ jform.type = "creative"
    /\ jsub.id = "j1"
    /\ janswers = <<"pending", "pending", "finished">>
    /\ jpollIn.body.payload.s = <<"Q", "Q", "Q", "=">>
    /\ jans.image = <<DataTag, Comma, "Q", "Q", "Q", "=">>
    /\ AnswerImage(jans).bytes = <<65, 4>>

\* C37: with the cache enabled, every stored cache entry holds a final
\* result: no stored response carries pending:true or only a job handle.
C37_StoredEntryIsFinal ==
    jstored # NoAnswer =>
        (jCachePath # "" /\ ~jstored.pending /\ jstored.image # <<>>)

(***************************************************************************)
(* Several goroutines calling Upscale, PollCreativeResult or GetClient on  *)
(* one MiddlewareClient.  The operations take no lock.                     *)
(***************************************************************************)
NumGoroutines == 2   \* goroutines sharing the client

Goroutines == 1..NumGoroutines

InitShared ==
    /\ sharedList \in MiddlewareLists
    /\ sharedTransport = [value |-> 0, writer |-> 0]
    /\ gpc = [g \in Goroutines |-> "idle"]
    /\ gop \in [Goroutines -> Ops]
    /\ gread = [g \in Goroutines |-> [value |-> 0, writer |-> 0]]
    /\ unsyncWrite = FALSE
    /\ IdleRL
    /\ IdleChain
    /\ IdleRetry
    /\ IdlePoll
    /\ IdleKey
    /\ IdleCache
    /\ IdleAuth
    /\ IdleSubmit
    /\ IdleJob
    /\ IdleSrv
    /\ IdleCtx
    /\ IdleProxy
    /\ IdleWait

\* A call is in flight from its write of the transport to its return.
InFlight(g) == gpc[g] \in {"installed", "doing"}

\* The first statements of each operation: the loop over c.middleware and
\* the assignment c.Client.HTTPClient.Transport = transport.
SharedInstall(g) ==
    /\ gpc[g] = "idle"
    /\ sharedTransport' = [value |-> ChainTransport(sharedList), writer |-> g]
    /\ unsyncWrite' = (unsyncWrite \/ \E h \in Goroutines \ {g} : InFlight(h))
    /\ gpc' = [gpc EXCEPT ![g] = "installed"]
    /\ UNCHANGED <<sharedList, gop, gread>>
    /\ UNCHANGED notShared

\* c.HTTPClient.Do(req) inside Client.Upscale / Client.PollCreativeResult:
\* the request is handed to the transport the field holds at that moment.
SharedDo(g) ==
    /\ gpc[g] = "installed"
    /\ gop[g] # "GetClient"
    /\ gread' = [gread EXCEPT ![g] = sharedTransport]
    /\ gpc' = [gpc EXCEPT ![g] = "doing"]
    /\ UNCHANGED <<sharedList, sharedTransport, gop, unsyncWrite>>
    /\ UNCHANGED notShared

\* The operation returns: GetClient right after the assignment, the others
\* when the round trip is over.
SharedReturn(g) ==
    /\ \/ gpc[g] = "doing"
       \/ gpc[g] = "installed" /\ gop[g] = "GetClient"
    /\ gpc' = [gpc EXCEPT ![g] = "done"]
    /\ UNCHANGED <<sharedList, sharedTransport, gop, gread, unsyncWrite>>
    /\ UNCHANGED notShared

NextShared ==
    \/ \E g \in Goroutines : SharedInstall(g)
    \/ \E g \in Goroutines : SharedDo(g)
    \/ \E g \in Goroutines : SharedReturn(g)

SpecShared == InitShared /\ [][NextShared]_vars

\* C28: no call writes state shared with another call in flight; the
\* transport of the shared HTTP client is not reassigned while the round
\* trip of another call is using it.
C28_NoUnsynchronizedWrite ==
    /\ ~unsyncWrite
    /\ \A g \in Goroutines : gpc[g] = "doing" => sharedTransport = gread[g]

(***************************************************************************)
(* Requests arriving over time at the handler chain of the API server.     *)
(* Every request is taken to pass the authorization stages.                *)
(***************************************************************************)
NumArrivals == 3     \* requests that arrive
MaxSrvTime == 4      \* last tick of the server's clock

Arrivals == 1..NumArrivals

\* The position of a request that left the last middleware: at a handler.
AtHandler == Len(srvChain) + 1

\* s.Router of api.New: the global middleware of the router; RateLimit is
\* stored in the Server and handed to no middleware.
NewServer(rateLimit) ==
    /\ srvLimit = rateLimit
    /\ srvChain = ChainOrder(GlobalMiddlewares, Len(GlobalMiddlewares))
    /\ bucket = 0
    /\ tickerpc = "none"
    /\ refillAt = 0

\* WithRateLimit(limit)(next) on its own: the bucket is empty and the
\* refill goroutine is started.
NewLimiter(limit) ==
    /\ srvLimit = limit
    /\ srvChain = <<"WithRateLimit">>
    /\ bucket = 0
    /\ tickerpc = "start"
    /\ refillAt = 0

IdleArrivals ==
    /\ stime = 0
    /\ sat = [r \in Arrivals |-> 0]
    /\ lastAdmit = ZeroTime
    /\ admitGap = MaxDuration
    /\ IdleRL
    /\ IdleChain
    /\ IdleRetry
    /\ IdlePoll
    /\ IdleKey
    /\ IdleCache
    /\ IdleAuth
    /\ IdleSubmit
    /\ IdleJob
    /\ IdleShared

InitServer ==
    /\ \E d \in 1..MaxInterval : NewServer(d)
    /\ IdleArrivals
    /\ IdleCtx
    /\ IdleProxy
    /\ IdleWait

InitLimiter ==
    /\ \E d \in 1..MaxInterval : NewLimiter(d)
    /\ IdleArrivals
    /\ IdleCtx
    /\ IdleProxy
    /\ IdleWait

SrvTick ==
    /\ stime < MaxSrvTime
    /\ stime' = stime + 1
    /\ UNCHANGED <<srvLimit, srvChain, bucket, tickerpc, refillAt, sat, lastAdmit,
                   admitGap>>
    /\ UNCHANGED notSrv

\* A request reaches the outermost middleware.
SrvArrive(r) ==
    /\ sat[r] = 0
    /\ sat' = [sat EXCEPT ![r] = 1]
    /\ UNCHANGED <<srvLimit, srvChain, stime, bucket, tickerpc, refillAt,
                   lastAdmit, admitGap>>
    /\ UNCHANGED notSrv

\* The request has reached a handler: the admission is recorded.
Admitted(r, at) ==
    IF at = AtHandler
    THEN /\ lastAdmit' = stime
         /\ admitGap' = Min(admitGap, IF lastAdmit = ZeroTime THEN MaxDuration
                                      ELSE stime - lastAdmit)
    ELSE UNCHANGED <<lastAdmit, admitGap>>

\* A middleware other than WithRateLimit calls next.ServeHTTP.
SrvForward(r) ==
    /\ sat[r] \in 1..Len(srvChain)
    /\ srvChain[sat[r]] # "WithRateLimit"
    /\ sat' = [sat EXCEPT ![r] = @ + 1]
    /\ Admitted(r, sat[r] + 1)
    /\ UNCHANGED <<srvLimit, srvChain, stime, bucket, tickerpc, refillAt>>
    /\ UNCHANGED notSrv

\* WithRateLimit: "<-bucket", then next.ServeHTTP.
SrvTakeToken(r) ==
    /\ sat[r] \in 1..Len(srvChain)
    /\ srvChain[sat[r]] = "WithRateLimit"
    /\ bucket > 0
    /\ bucket' = bucket - 1
    /\ sat' = [sat EXCEPT ![r] = @ + 1]
    /\ Admitted(r, sat[r] + 1)
    /\ UNCHANGED <<srvLimit, srvChain, stime, tickerpc, refillAt>>
    /\ UNCHANGED notSrv

\* The refill goroutine: ticker := time.NewTicker(limit); bucket <- struct{}{}
TickerStart ==
    /\ tickerpc = "start"
    /\ refillAt' = stime + srvLimit
    /\ bucket' = 1
    /\ tickerpc' = "running"
    /\ UNCHANGED <<srvLimit, srvChain, stime, sat, lastAdmit, admitGap>>
    /\ UNCHANGED notSrv

\* for range ticker.C { select { case bucket <- struct{}{}: default: } }
\* The goroutine may read a tick late; ticks that came meanwhile are
\* dropped by the ticker.
TickerRefill ==
    /\ tickerpc = "running"
    /\ stime >= refillAt
    /\ bucket' = 1
    /\ refillAt' = refillAt + srvLimit * (((stime - refillAt) \div srvLimit) + 1)
    /\ UNCHANGED <<srvLimit, srvChain, stime, tickerpc, sat, lastAdmit, admitGap>>
    /\ UNCHANGED notSrv

NextServer ==
    \/ SrvTick
    \/ \E r \in Arrivals : SrvArrive(r)
    \/ \E r \in Arrivals : SrvForward(r)

NextLimiter ==
    \/ SrvTick
    \/ \E r \in Arrivals : SrvArrive(r)
    \/ \E r \in Arrivals : SrvTakeToken(r)
    \/ TickerStart
    \/ TickerRefill

\* The server built by api.New.
SpecServer == InitServer /\ [][NextServer]_vars

\* A handler behind WithRateLimit alone.
SpecLimiter == InitLimiter /\ [][NextLimiter]_vars

\* C29: any two requests the server built by api.New admits to a handler
\* are at least the configured rate-limit interval apart.
C29_ServerEnforcesRateLimit == admitGap >= srvLimit

\* C34: any two requests that WithRateLimit(limit) admits to the next
\* handler are at least limit apart, for every arrival pattern, a request
\* that arrives after an idle period just before a refill tick included.
C34_LimiterSpacing ==
    (srvChain = <<"WithRateLimit">> /\ lastAdmit # ZeroTime) =>
        admitGap >= srvLimit

(***************************************************************************)
(* Cancellation while a caller is blocked in RateLimitMiddleware.RoundTrip. *)
(* RoundTrip never looks at req.Context(): its steps are those of SpecRL.   *)
(***************************************************************************)
\* The context of the request of caller c is cancelled while the caller is
\* blocked in time.Sleep.
CancelInWait(c) ==
    /\ rlpc[c] = "sleep"
    /\ ctxCancelled[c] = 0
    /\ ctxCancelled' = [ctxCancelled EXCEPT ![c] = callsDone[c] + 1]
    /\ UNCHANGED notCtx

NextRLCancel ==
    \/ NextRL
    \/ \E c \in Callers : CancelInWait(c)

SpecRLCancel == InitRL /\ [][NextRLCancel]_vars

\* C30: a call whose context is cancelled while it is blocked in the
\* limiter's interval wait does not go on: it neither stamps the limiter
\* nor dispatches its request.
C30_CancellationWins ==
    \A c \in Callers :
        ctxCancelled[c] > 0 =>
            /\ callsDone[c] < ctxCancelled[c]
            /\ rlpc[c] \notin {"stamp", "dispatch"}

(***************************************************************************)
(* A RetryMiddleware whose wrapped transport is a ProxyMiddleware in front *)
(* of the network: NewRetryMiddleware(r, base, max,                        *)
(* NewProxyMiddleware(proxyURL, nil)).  Every attempt hands the same       *)
(* *http.Request, and so the same *url.URL, to the ProxyMiddleware.        *)
(***************************************************************************)
ProxyHost == "proxy.example.com"

\* The URLs a request is built with.  A query is the list of its
\* (name, value) pairs in the order of the raw query.
OriginalURLs ==
    {[scheme |-> sc, host |-> "api.stability.ai",
      path |-> <<"v2beta", "upscale">>, query |-> q] :
        sc \in {"http", "https"}, q \in {<<>>, <<<<"z", "1">>>>}}

\* req.URL.String(): the text of the URL, part by part.
URLString(u) == <<u.scheme, "://", u.host, u.path, "?", u.query>>

\* The names a query holds here, as url.Values.Encode sorts them.
QueryNames == <<"target", "z">>

\* u.Query(): the values of each name in the order they appear.
Query(u) ==
    [name \in {QueryNames[i] : i \in 1..Len(QueryNames)} |->
        LET pairs == SelectSeq(u.query, LAMBDA p : p[1] = name)
        IN  [i \in 1..Len(pairs) |-> pairs[i][2]]]

\* q.Add(name, value): the value is appended to those of the name.
Add(q, name, value) == [q EXCEPT ![name] = Append(@, value)]

\* q.Encode(): name=value pairs, sorted by name.
RECURSIVE EncodeNames(_, _)
EncodeNames(q, i) ==
    IF i > Len(QueryNames) THEN <<>>
    ELSE [k \in 1..Len(q[QueryNames[i]]) |-> <<QueryNames[i], q[QueryNames[i]][k]>>]
            \o EncodeNames(q, i + 1)

Encode(q) == EncodeNames(q, 1)

\* ProxyMiddleware.RoundTrip up to the call of its transport: the fields of
\* req.URL are assigned in place.
ProxyRewrite(u) ==
    LET originalURL == URLString(u)
    IN  [scheme |-> "https",
         host |-> ProxyHost,
         path |-> <<"proxy">> \o u.path,
         query |-> Encode(Add(Query(u), "target", originalURL))]

\* The variables of the components other than these two.
notRetryProxy == <<rlVars, chainVars, pollVars, keyVars, cacheVars, authVars,
                   submitVars, jobVars, sharedVars, srvVars, ctxVars, waitVars>>

InitRetryProxy ==
    /\ RetryStart(0..MaxRetries)
    /\ origBody = NilBody
    /\ origURL \in OriginalURLs
    /\ reqURL = origURL
    /\ sentURLs = <<>>
    /\ IdleRL
    /\ IdleChain
    /\ IdlePoll
    /\ IdleKey
    /\ IdleCache
    /\ IdleAuth
    /\ IdleSubmit
    /\ IdleJob
    /\ IdleShared
    /\ IdleSrv
    /\ IdleCtx
    /\ IdleWait

\* "resp, err = m.transport.RoundTrip(req)" of the RetryMiddleware, with the
\* ProxyMiddleware as m.transport: the URL is rewritten and the request goes
\* to the network.
ProxyRoundTrip(out) ==
    /\ Dispatch(out)
    /\ reqURL' = ProxyRewrite(reqURL)
    /\ sentURLs' = Append(sentURLs, reqURL')
    /\ UNCHANGED origURL
    /\ UNCHANGED notRetryProxy

NextRetryProxy ==
    \/ RetryBegin
    \/ \E out \in Outcomes : ProxyRoundTrip(out)
    \/ \E j \in JitterTenths, conv \in ConvOutOfRange : RetryDecide(j, conv)
    \/ RetrySelect
    \/ TimerFire
    \/ Cancel
    \/ RetryWake

SpecRetryProxy == InitRetryProxy /\ [][NextRetryProxy]_vars

\* The values of the "target" parameter of a URL, in order.
Targets(u) ==
    LET pairs == SelectSeq(u.query, LAMBDA p : p[1] = "target")
    IN  [i \in 1..Len(pairs) |-> pairs[i][2]]

\* C36: every attempt of one request is dispatched to the same rewritten
\* destination: the proxy host, the original path under exactly one "proxy"
\* prefix, and exactly one "target" parameter, equal to the original URL.
C36_SameDestinationEveryAttempt ==
    \A i \in 1..Len(sentURLs) :
        /\ sentURLs[i].host = ProxyHost
        /\ sentURLs[i].path = <<"proxy">> \o origURL.path
        /\ Targets(sentURLs[i]) = <<URLString(origURL)>>

(***************************************************************************)
(* Client.WaitForVideoResult (src/client/video.go:455-475): a ticker of    *)
(* the given interval and a loop around one select over ctx.Done() and     *)
(* ticker.C.  A select that finds several cases ready takes any of them; a *)
(* select that finds none ready blocks and is woken by the first channel   *)
(* that becomes ready.  time.NewTicker panics on an interval that is not   *)
(* positive.                                                               *)
(***************************************************************************)

WaitIntervals == {0, 1}

\* The exchange of a poll that could not be sent; http.Client.Do fails this
\* way, among other reasons, when the context of the request is cancelled.
SendFailure == [doErr |-> TRUE, status |-> 0, body |-> FailureBody]

\* What a poll sent now gets.
WaitPollAnswers ==
    IF wctxDone THEN {SendFailure}
    ELSE JobPollAnswers(wjob) \cup {SendFailure}

WaitResult(kind, r) == [kind |-> kind, r |-> r]

InitWait ==
    /\ winterval \in WaitIntervals
    /\ wpc = "start"
    /\ wwoken = "none"
    /\ wctxDone \in BOOLEAN
    /\ wtick = FALSE
    /\ wjob \in {[kind |-> "video", state |-> "pending", payload |-> <<>>]}
                  \cup {[kind |-> "video", state |-> "finished", payload |-> p] :
                            p \in JobPayloads}
    /\ wout = NoWaitResult
    /\ wfirst = IF wctxDone THEN "ctx" ELSE "none"
    /\ wlatePoll = FALSE
    /\ wpolls = 0
    /\ IdleRL
    /\ IdleChain
    /\ IdleRetry
    /\ IdlePoll
    /\ IdleKey
    /\ IdleCache
    /\ IdleAuth
    /\ IdleSubmit
    /\ IdleJob
    /\ IdleShared
    /\ IdleSrv
    /\ IdleCtx
    /\ IdleProxy

\* ticker := time.NewTicker(interval)
NewTicker ==
    /\ wpc = "start"
    /\ IF winterval <= 0
       THEN /\ wpc' = "panicked"
            /\ wout' = WaitResult("panic", NoPollResult)
       ELSE /\ wpc' = "select"
            /\ wout' = wout
    /\ UNCHANGED <<winterval, wwoken, wctxDone, wtick, wjob, wfirst, wlatePoll, wpolls>>
    /\ UNCHANGED notWait

\* The ticker sends on ticker.C, which holds one tick; a tick that finds the
\* channel full is dropped.
TickerFires ==
    /\ wpc \in {"select", "parked"}
    /\ ~wtick
    /\ wtick' = TRUE
    /\ wwoken' = IF wpc = "parked" /\ wwoken = "none" THEN "tick" ELSE wwoken
    /\ UNCHANGED <<winterval, wpc, wctxDone, wjob, wout, wfirst, wlatePoll, wpolls>>
    /\ UNCHANGED notWait

\* The caller cancels the context, or its deadline passes.
WaitCancel ==
    /\ wpc \in {"start", "select", "parked"}
    /\ ~wctxDone
    /\ wctxDone' = TRUE
    /\ wwoken' = IF wpc = "parked" /\ wwoken = "none" THEN "ctx" ELSE wwoken
    /\ wfirst' = IF wfirst = "none" THEN "ctx" ELSE wfirst
    /\ UNCHANGED <<winterval, wpc, wtick, wjob, wout, wlatePoll, wpolls>>
    /\ UNCHANGED notWait

\* The upstream finishes the job.
WaitUpstreamFinish ==
    /\ wpc \in {"start", "select", "parked"}
    /\ wjob.state = "pending"
    /\ \E p \in JobPayloads :
        wjob' = [wjob EXCEPT !.state = "finished", !.payload = p]
    /\ UNCHANGED <<winterval, wpc, wwoken, wctxDone, wtick, wout, wfirst, wlatePoll,
                   wpolls>>
    /\ UNCHANGED notWait

\* case <-ctx.Done(): return nil, ctx.Err()
CaseDone ==
    /\ wpc' = "returned"
    /\ wout' = WaitResult("ctx", NoPollResult)
    /\ wwoken' = "none"
    /\ UNCHANGED <<winterval, wctxDone, wtick, wjob, wfirst, wlatePoll, wpolls>>

\* case <-ticker.C: the tick is received and PollVideoResult is called; an
\* error returns it, a finished result returns it, anything else loops.
CaseTick ==
    /\ wtick' = FALSE
    /\ wwoken' = "none"
    /\ wlatePoll' = (wlatePoll \/ wfirst # "none")
    /\ wpolls' = IF wpolls < MaxPolls THEN wpolls + 1 ELSE wpolls
    /\ \E in \in WaitPollAnswers :
        LET r == PollVideoResultOf(in)
        IN  IF r.err # "nil"
            THEN /\ wpc' = "returned"
                 /\ wout' = WaitResult("error", PollResult(NoResp, FALSE, r.err))
                 /\ wfirst' = IF wfirst = "none" THEN "error" ELSE wfirst
            ELSE IF r.finished
            THEN /\ wpc' = "returned"
                 /\ wout' = WaitResult("result", r)
                 /\ wfirst' = IF wfirst = "none" THEN "finished" ELSE wfirst
            ELSE /\ wpc' = "select"
                 /\ wout' = wout
                 /\ wfirst' = wfirst
    /\ UNCHANGED <<winterval, wctxDone, wjob>>

\* The select statement is reached: any ready case, or block.
WaitSelect ==
    /\ wpc = "select"
    /\ \/ wctxDone /\ CaseDone
       \/ wtick /\ CaseTick
       \/ /\ ~wctxDone
          /\ ~wtick
          /\ wpc' = "parked"
          /\ UNCHANGED <<winterval, wwoken, wctxDone, wtick, wjob, wout, wfirst,
                         wlatePoll, wpolls>>
    /\ UNCHANGED notWait

\* The blocked select runs the case of the channel that woke it.
WaitWake ==
    /\ wpc = "parked"
    /\ \/ wwoken = "ctx" /\ CaseDone
       \/ wwoken = "tick" /\ CaseTick
    /\ UNCHANGED notWait

NextWait ==
    \/ NewTicker
    \/ TickerFires
    \/ WaitCancel
    \/ WaitUpstreamFinish
    \/ WaitSelect
    \/ WaitWake

\* The ticker keeps ticking and the goroutine keeps running.
WaitFairness ==
    /\ WF_vars(NewTicker)
    /\ WF_vars(TickerFires)
    /\ WF_vars(WaitSelect)
    /\ WF_vars(WaitWake)

SpecWait == InitWait /\ [][NextWait]_vars /\ WaitFairness

\* The return matches the first event that ends the wait, and no poll was
\* started after it.
ReturnsAtFirstEvent ==
    /\ ~wlatePoll
    /\ wpc = "returned" =>
        /\ wfirst # "none"
        /\ wfirst = "finished" =>
            (wout.kind = "result" /\ wout.r.finished /\ wout.r.err = "nil")
        /\ wfirst = "error" => (wout.kind = "error" /\ wout.r.err # "nil")
        /\ wfirst = "ctx" => wout.kind = "ctx"

\* C40: WaitForVideoResult returns at the first of: a poll reports finished
\* (that result is returned), a poll returns an error (that error is
\* returned), the context is cancelled (the context error is returned), and
\* polls no more afterwards; and when the upstream eventually reports
\* finished, no poll errors and the context is not cancelled, the result is
\* eventually returned.
C40_WaitReturnsAtFirstEvent ==
    /\ []ReturnsAtFirstEvent
    /\ (<>(wjob.state = "finished") /\ [](wout.kind # "error") /\ []~wctxDone)
           => <>(wpc = "returned" /\ wout.kind = "result")

============================================================================
